---- MODULE Spec2Model ----
(***************************************************************************)
(* Model of mloader's download orchestration and resumable manifest:       *)
(*   src/mloader/manga_loader/manifest.py   (TitleDownloadManifest)        *)
(*   src/mloader/manga_loader/downloader.py (DownloadMixin)                *)
(*                                                                         *)
(* Three specifications share the variables:                               *)
(*   SpecManifest  - manifest instances in one title directory, each       *)
(*                   file-system call and lock operation its own step;     *)
(*   Spec          - one orchestrator at a time, run after run;            *)
(*   SpecTwoRuns   - two orchestrators on the same title directories.      *)
(* In the orchestrator specifications a locked section of the manifest is  *)
(* one step and the lock is always acquired in time.                       *)
(***************************************************************************)
EXTENDS Integers, Sequences, FiniteSets, TLC

----------------------------------------------------------------------------
(* Bounds *)

MaxChapter == 3     \* chapter ids 1..MaxChapter
MaxClock == 1       \* _utc_timestamp() takes the values Stamps[1..MaxClock+1]
MaxCrashes == 1     \* process crashes explored in SpecManifest
MaxCalls == 3       \* manifest calls explored in SpecManifest
MaxRuns == 2        \* download() calls per orchestrator
MaxCacheSize == 2   \* cache maximums explored next to the defaults
MaxPages == 3       \* pages of the chapter handed to export_pages
MaxData == 3        \* bytes of the data handed to _xor_decrypt
MaxKey == 2         \* bytes of its key
MaxDecrypts == 2    \* calls of _xor_decrypt on the same data

----------------------------------------------------------------------------
(* Program constants *)

MANIFEST_VERSION == 2
MANIFEST_SCHEMA == "mloader.title_download_manifest"

\* api.py: defaults of the two cache maximums
_viewer_cache_max_size == 512
_title_cache_max_size == 256

----------------------------------------------------------------------------
(* Values *)

Null == "null"          \* Python None / JSON null
Missing == "missing"    \* key not present in the dict

Stamps == <<"t0", "t1", "t2", "t3", "t4">>

Chapters == 1..MaxChapter
Titles == {1, 2}

\* The catalog: the last chapter id belongs to title 2, the others to title 1.
TitleOf(c) == IF c < MaxChapter THEN 1 ELSE 2
ChaptersOf(t) == {c \in Chapters : TitleOf(c) = t}

Inst == {1, 2}          \* manifest instances / orchestrator processes

StatusValues == {"in_progress", "completed", "failed"}

EntryFields ==
    {"chapter_id", "chapter_name", "sub_title", "output_format", "status",
     "started_at", "completed_at", "failed_at", "error", "output_path"}

\* A chapter map is a function whose domain is the set of keys present.
EmptyChapters == [c \in {} |-> 0]

----------------------------------------------------------------------------
(* manifest.py: pure parts *)

\* {"chapter_id": chapter_id}, the entry _mark_entry starts from when the key
\* is not stored.
NewEntry(chapter_id) ==
    [chapter_id |-> chapter_id, chapter_name |-> Missing, sub_title |-> Missing,
     output_format |-> Missing, status |-> Missing, started_at |-> Missing,
     completed_at |-> Missing, failed_at |-> Missing, error |-> Missing,
     output_path |-> Missing]

\* An update dict: <<field, value>> pairs; dict.update overwrites those keys.
ApplyUpdates(entry, updates) ==
    [f \in EntryFields |->
        IF \E u \in updates : u[1] = f
        THEN (CHOOSE u \in updates : u[1] = f)[2]
        ELSE entry[f]]

\* Variant: mark_started leaves the outcome of an earlier attempt in place.
StartedUpdatesKeepOutcome(ts, output_format) ==
    {<<"chapter_name", "name">>, <<"sub_title", "sub">>,
     <<"output_format", output_format>>, <<"status", "in_progress">>,
     <<"started_at", ts>>}

\* The updates are kept apart from chapter_id, whose value is an integer.
StartedUpdates(ts, output_format) ==
    {<<"chapter_name", "name">>, <<"sub_title", "sub">>,
     <<"output_format", output_format>>, <<"status", "in_progress">>,
     <<"started_at", ts>>, <<"completed_at", Null>>, <<"failed_at", Null>>,
     <<"error", Null>>}

CompletedUpdates(ts, output_path) ==
    {<<"status", "completed">>, <<"completed_at", ts>>, <<"failed_at", Null>>,
     <<"error", Null>>}
    \cup (IF output_path # Null THEN {<<"output_path", output_path>>} ELSE {})

FailedUpdates(ts, error) ==
    {<<"status", "failed">>, <<"failed_at", ts>>, <<"error", error>>}

MarkKinds == {"mark_started", "mark_completed", "mark_failed"}

\* The updates dict of mark_started / mark_completed / mark_failed.
UpdatesOf(kind, ts, arg) ==
    CASE kind = "mark_started" -> StartedUpdates(ts, arg)
      [] kind = "mark_completed" -> CompletedUpdates(ts, arg)
      [] kind = "mark_failed" -> FailedUpdates(ts, arg)

StatusOfMark(kind) ==
    CASE kind = "mark_started" -> "in_progress"
      [] kind = "mark_completed" -> "completed"
      [] kind = "mark_failed" -> "failed"

\* entry = dict(self._chapters.get(key, {"chapter_id": chapter_id}));
\* entry.update(updates)   (every updates dict also sets chapter_id)
MergedEntry(chapters, chapter_id, updates) ==
    LET base == IF chapter_id \in DOMAIN chapters THEN chapters[chapter_id]
                ELSE NewEntry(chapter_id)
        merged == ApplyUpdates(base, updates)
    IN [merged EXCEPT !.chapter_id = chapter_id]

PutEntry(chapters, chapter_id, entry) ==
    [c \in DOMAIN chapters \cup {chapter_id} |->
        IF c = chapter_id THEN entry ELSE chapters[c]]

\* Variant: _mark_entry stores the merged entry without comparing it.
MarkEntryAlwaysStores(m, chapter_id, updates) ==
    [m EXCEPT !.chapters = PutEntry(m.chapters, chapter_id,
                                    MergedEntry(m.chapters, chapter_id, updates)),
              !.dirty = TRUE]

\* The in-memory part of _mark_entry: merge, compare, store, set _dirty.
\* m is [chapters, dirty]; the result is m after the call.
_mark_entry_memory(m, chapter_id, updates) ==
    LET entry == MergedEntry(m.chapters, chapter_id, updates) IN
    IF chapter_id \in DOMAIN m.chapters /\ m.chapters[chapter_id] = entry
    THEN m
    ELSE [m EXCEPT !.chapters = PutEntry(m.chapters, chapter_id, entry),
                   !.dirty = TRUE]

is_completed(chapters, chapter_id) ==
    /\ chapter_id \in DOMAIN chapters
    /\ chapters[chapter_id].status = "completed"

StatusIn(chapters, c) ==
    IF c \in DOMAIN chapters THEN chapters[c].status ELSE "absent"

----------------------------------------------------------------------------
(* Files *)

\* A JSON value read as a chapter map: whether it is an object at all, and
\* its items, each of which is an object (an entry) or something else.
Item(entry) == [is_dict |-> TRUE, entry |-> entry]
NotADict == [is_dict |-> FALSE, entry |-> NewEntry(0)]
NoItems == [c \in {} |-> NotADict]
JsonDict(items) == [is_dict |-> TRUE, items |-> items]
NotAJsonDict == [is_dict |-> FALSE, items |-> NoItems]
DictOf(chapters) == JsonDict([c \in DOMAIN chapters |-> Item(chapters[c])])

\* In a payload, version is the integer under "version", or NoVersion when
\* the key is absent or holds anything but a non-negative int; chapters is the
\* value under "chapters"; rest holds the other top-level keys.
NoVersion == -1

\* The payload _save_unlocked serialises.
SavedPayload(chapters) ==
    [version |-> MANIFEST_VERSION, schema |-> MANIFEST_SCHEMA,
     chapters |-> DictOf(chapters), rest |-> NoItems]

\* What the bytes at a path are: JSON text of an object ("json"), JSON text of
\* another value, text that is not JSON, bytes that are not UTF-8, or
\* something the process cannot read.
FileForms == {"json", "not_object", "not_json", "not_utf8", "unreadable"}

NoFile == [exists |-> FALSE, complete |-> FALSE, form |-> "json",
           payload |-> SavedPayload(EmptyChapters)]

\* A file being written holds a prefix of the JSON text until it is closed.
PartialFile(payload) ==
    [exists |-> TRUE, complete |-> FALSE, form |-> "json", payload |-> payload]
WholeFile(payload) ==
    [exists |-> TRUE, complete |-> TRUE, form |-> "json", payload |-> payload]
GarbledFile(form) ==
    [exists |-> TRUE, complete |-> TRUE, form |-> form,
     payload |-> SavedPayload(EmptyChapters)]

\* _coerce_chapter_entries: {} unless a dict; else its dict-valued items.
_coerce_chapter_entries(raw_chapters) ==
    IF ~raw_chapters.is_dict THEN EmptyChapters
    ELSE LET kept == {c \in DOMAIN raw_chapters.items :
                        raw_chapters.items[c].is_dict}
         IN [c \in kept |-> raw_chapters.items[c].entry]

\* The payload itself read as a chapter map: its top-level keys, among them
\* "chapters" (written as key 0 here) when that holds a dict.
ChaptersKey == 0
PayloadAsChapters(payload) ==
    JsonDict([c \in DOMAIN payload.rest \cup
                    (IF payload.chapters.is_dict THEN {ChaptersKey} ELSE {}) |->
                IF c = ChaptersKey THEN Item(NewEntry(ChaptersKey))
                ELSE payload.rest[c]])

\* Variant: version 0 is read like version 1, from the "chapters" key only.
MigrateV0FromChaptersKey(payload) ==
    [version |-> 1, schema |-> Missing,
     chapters |-> DictOf(_coerce_chapter_entries(payload.chapters)),
     rest |-> NoItems]

\* _migrate_v0_to_v1
_migrate_v0_to_v1(payload) ==
    LET chapters == _coerce_chapter_entries(payload.chapters)
    IN [version |-> 1, schema |-> Missing,
        chapters |-> DictOf(IF chapters = EmptyChapters
                            THEN _coerce_chapter_entries(PayloadAsChapters(payload))
                            ELSE chapters),
        rest |-> NoItems]

\* _migrate_v1_to_v2
_migrate_v1_to_v2(payload) ==
    [version |-> 2, schema |-> MANIFEST_SCHEMA,
     chapters |-> DictOf(_coerce_chapter_entries(payload.chapters)),
     rest |-> NoItems]

\* The versions MANIFEST_MIGRATIONS has a migrator for.
MANIFEST_MIGRATIONS == {0, 1}
Migrated(version, payload) ==
    IF version = 0 THEN _migrate_v0_to_v1(payload)
    ELSE _migrate_v1_to_v2(payload)

\* The while loop of _normalize_payload.
RECURSIVE MigrationLoop(_, _, _)
MigrationLoop(version, normalized, migrated) ==
    IF version < MANIFEST_VERSION
    THEN IF version \notin MANIFEST_MIGRATIONS
         THEN <<EmptyChapters, FALSE>>
         ELSE MigrationLoop(version + 1, Migrated(version, normalized), TRUE)
    ELSE <<_coerce_chapter_entries(normalized.chapters), migrated>>

\* _normalize_payload: <<chapters, migrated>>.
_normalize_payload(payload) ==
    LET raw_version == payload.version
        version == IF raw_version >= 0 THEN raw_version ELSE 0
    IN IF version > MANIFEST_VERSION
       THEN <<_coerce_chapter_entries(payload.chapters), FALSE>>
       ELSE MigrationLoop(version, payload, FALSE)

Loaded(chapters, dirty, raised) ==
    [chapters |-> chapters, dirty |-> dirty, raised |-> raised]

\* _load_unlocked without the autosave write-back: what _chapters and _dirty
\* become, or the exception that leaves the call.  read_text raises OSError
\* for a path it cannot read and UnicodeDecodeError, which is neither OSError
\* nor JSONDecodeError, for bytes that are not UTF-8.
_load_unlocked(file) ==
    IF ~file.exists THEN Loaded(EmptyChapters, FALSE, "none")
    ELSE IF file.form = "unreadable" THEN Loaded(EmptyChapters, FALSE, "none")
    ELSE IF file.form = "not_utf8"
         THEN Loaded(EmptyChapters, FALSE, "UnicodeDecodeError")
    ELSE IF file.form = "not_json" \/ ~file.complete
         THEN Loaded(EmptyChapters, FALSE, "none")
    ELSE IF file.form = "not_object" THEN Loaded(EmptyChapters, FALSE, "none")
    ELSE LET n == _normalize_payload(file.payload)
         IN Loaded(n[1], n[2], "none")

----------------------------------------------------------------------------
(* State *)

VARIABLES
    disk,       \* disk[t]: the manifest file in title t's export directory
    tmp,        \* tmp[i]: the NamedTemporaryFile process i is writing
    held,       \* processes inside "with self._lock" (the sidecar lock file)
    now,        \* index of the value _utc_timestamp() returns
    inst,       \* inst[i]: [chapters, dirty, autosave] of manifest instance i
    ipc,        \* ipc[i]: position of instance i inside its current call
    iop,        \* iop[i]: the call in progress, [kind, chapter_id, ts, arg, after]
    applied,    \* applied[c]: status of the last mark whose locked section ended
    crashes,    \* process crashes so far
    calls,      \* manifest calls begun in SpecManifest
    \* orchestrator r (DownloadMixin), one per process
    pc,         \* pc[r]: position inside download()
    request,    \* the chapter ids the normalized mapping asks for
    output_format,  \* self.output_format
    resume,     \* resume[r]: self.resume
    manifest_reset, \* manifest_reset[r]: self.manifest_reset
    summary,    \* summary[r]: the _MutableDownloadSummary of the run
    titles,     \* titles[r]: titles of the mapping not yet processed
    cur,        \* cur[r]: [title, chapter, queue, planned] of _process_title
    man,        \* man[r]: [open, title, chapters, dirty], the title's manifest
    exc,        \* exc[r]: the exception propagating, or "none"
    error,      \* error[r]: str(error) of the chapter failure being handled
    outcome,    \* outcome[r]: how the last download() ended, as the caller sees it
    exported,   \* chapters whose single-file output exists in the export dir
    runs,       \* runs[r]: download() calls started
    finished,   \* finished[r]: chapters whose _process_chapter returned, this run
    attempted,  \* attempted[r]: chapters whose _process_chapter began, this run
    queued      \* queued[r]: chapters the title loops were to process, this run

\* the API client of one loader (APILoaderMixin)
VARIABLES
    viewer_cache,   \* self._viewer_cache: <<[key, value], ...>>, oldest first
    title_cache,    \* self._title_cache, likewise
    viewer_max,     \* self._viewer_cache_max_size
    title_max,      \* self._title_cache_max_size
    accessed,       \* accessed[k]: the keys of cache k by the time of their
                    \* last insertion or hit, oldest first
    unbroken,       \* unbroken[k]: the same, of the fetches since the last clear
    fetched         \* what the last fetch did: [cache, key, got, raised, value]

mvars == <<tmp, held, inst, ipc, iop, applied, crashes, calls>>
ovars == <<pc, request, output_format, resume, manifest_reset, summary, titles,
           cur, man, exc, error, outcome, exported, runs, finished, attempted,
           queued>>
\* observations kept for the properties of loading
VARIABLES
    raises,         \* raises[i]: the exception that left instance i's last
                    \* _load_unlocked, or "none"
    origin          \* [shape, raw]: what the manifest file held at the start

\* what the server says of the catalog, and the exporter options
VARIABLES
    catalog,            \* [titles, chapters]: title.name, title.language and
                        \* chapter.name, chapter.sub_title as they arrive
    add_chapter_title   \* the exporters' add_chapter_title

\* one call of PageExportService.export_pages
VARIABLES
    pages,          \* page.type of the pages handed to export_pages
    page_counter,   \* the value count() returns next
    page_pos,       \* pages the loop has taken from the progress bar
    output_indices, \* output_index of each page taken, in order
    added,          \* the indices handed to exporter.add_image, in order
    exhausted,      \* zip() has found the pages used up
    page_calls      \* the calls made on the exporter and on fetch_page_image,
                    \* in order: [call, page, index, returned]

\* one bytearray handed to _xor_decrypt, again and again
VARIABLES
    data,           \* the bytearray, changed in place
    xor_key,        \* the key bytes
    ciphertext,      \* the bytes of data before the first call
    decrypts,       \* calls of _xor_decrypt(data, xor_key) that returned
    xor_raised      \* the exception that left the last call, or "none"

\* one call of NormalizationMixin._normalize_ids
VARIABLES
    norm_args,      \* [title_ids, chapter_numbers, chapter_ids, min_chapter,
                    \*  max_chapter, last_chapter]: the arguments
    norm_pc,        \* position inside _normalize_ids
    remaining_title_ids,            \* the local of that name
    direct_chapter_ids_by_title,    \* the local of that name
    manga_mapping,  \* the local dict, <<[title_id, chapters], ...>> in
                    \* insertion order
    to_visit,       \* what the running for loop over a set has yet to take
    normalized_mapping,     \* the returned dict, <<[title_id, ids], ...>>
    norm_raised     \* the exception that left the call, or "none"

\* the session of one loader: the retry policy mounted by
\* _configure_transport and the GET in progress
VARIABLES
    retries,        \* the retries the loader was constructed with
    http            \* [active, id, total, sent, status, retry_after]: the
                    \* chapter asked for, the retries left, the requests
                    \* sent and the last answer received

\* one call of ChapterPlanner.filter_chapters_to_download
VARIABLES
    plan_args,      \* [chapter_data, title_dump, existing_files,
                    \* requested_chapter_ids]: the chapter ids of the metadata
                    \* in dict order, the chapter ids the title dump lists,
                    \* the stems found on disk, the requested ids
    plan_pc,        \* "off", "called" or "returned"
    planned_ids     \* the list the call returned

lvars == <<raises, origin>>
pvars == <<catalog, add_chapter_title>>
evars == <<pages, page_counter, page_pos, output_indices, added, exhausted,
           page_calls>>
dvars == <<data, xor_key, ciphertext, decrypts, xor_raised>>
\* the state of the helpers that are called on their own
nvars == <<norm_args, norm_pc, remaining_title_ids,
           direct_chapter_ids_by_title, manga_mapping, to_visit,
           normalized_mapping, norm_raised>>
tvars == <<retries, http>>
fvars == <<plan_args, plan_pc, planned_ids>>
uvars == <<dvars, nvars, tvars, fvars>>
cvars == <<viewer_cache, title_cache, viewer_max, title_max, accessed,
           unbroken, fetched>>
\* what the manifest and the orchestrator steps leave alone
xvars == <<cvars, lvars, pvars, evars, uvars>>
vars == <<disk, now, mvars, ovars, xvars>>

_utc_timestamp == Stamps[now + 1]

NoOp == [kind |-> "none", chapter_id |-> 0, ts |-> Null, arg |-> Null,
         after |-> "release"]

\* All instances of SpecManifest live in title 1's directory.
Dir == 1

Mem(i) == [chapters |-> inst[i].chapters, dirty |-> inst[i].dirty]

SetMem(i, m) ==
    inst' = [inst EXCEPT ![i].chapters = m.chapters, ![i].dirty = m.dirty]

----------------------------------------------------------------------------
(* TitleDownloadManifest, one step per lock operation and file-system call *)

\* The clock advances between calls.  _utc_timestamp() has a resolution of
\* one second: the marks of one download() run fall on one value, and the
\* clock moves on between runs.
Tick ==
    /\ now < MaxClock
    /\ \A r \in Inst : pc[r] \in {"off", "idle"}
    /\ now' = now + 1
    /\ UNCHANGED <<disk, tmp, held, inst, ipc, iop, applied, crashes, calls, ovars>>
    /\ UNCHANGED xvars

\* Variant: a mark goes for the lock and the file whatever the mode.
BeginMarkAlwaysSaves(i, kind, chapter_id, arg) ==
    /\ ipc[i] = "ready"
    /\ calls < MaxCalls
    /\ calls' = calls + 1
    /\ iop' = [iop EXCEPT ![i] = [kind |-> kind, chapter_id |-> chapter_id,
                                  ts |-> _utc_timestamp, arg |-> arg,
                                  after |-> "merge"]]
    /\ ipc' = [ipc EXCEPT ![i] = "acquire"]
    /\ UNCHANGED <<disk, tmp, held, now, inst, applied, crashes, ovars>>
    /\ UNCHANGED xvars

\* mark_started / mark_completed / mark_failed up to the lock: manual mode
\* finishes in memory; autosave mode goes for the lock.
BeginMark(i, kind, chapter_id, arg) ==
    /\ ipc[i] = "ready"
    /\ calls < MaxCalls
    /\ calls' = calls + 1
    /\ IF inst[i].autosave
       THEN /\ iop' = [iop EXCEPT ![i] = [kind |-> kind, chapter_id |-> chapter_id,
                                          ts |-> _utc_timestamp, arg |-> arg,
                                          after |-> "merge"]]
            /\ ipc' = [ipc EXCEPT ![i] = "acquire"]
            /\ UNCHANGED inst
       ELSE /\ SetMem(i, _mark_entry_memory(Mem(i), chapter_id,
                                            UpdatesOf(kind, _utc_timestamp, arg)))
            /\ UNCHANGED <<ipc, iop>>
    /\ UNCHANGED <<disk, tmp, held, now, applied, crashes, ovars>>
    /\ UNCHANGED xvars

\* save(): straight to the lock.
BeginSave(i) ==
    /\ ipc[i] = "ready"
    /\ calls < MaxCalls
    /\ calls' = calls + 1
    /\ iop' = [iop EXCEPT ![i] = [NoOp EXCEPT !.kind = "save"]]
    /\ ipc' = [ipc EXCEPT ![i] = "acquire"]
    /\ UNCHANGED <<disk, tmp, held, now, inst, applied, crashes, ovars>>
    /\ UNCHANGED xvars

\* flush(): returns at once when nothing is dirty.
BeginFlush(i) ==
    /\ ipc[i] = "ready"
    /\ calls < MaxCalls
    /\ calls' = calls + 1
    /\ IF inst[i].dirty
       THEN /\ iop' = [iop EXCEPT ![i] = [NoOp EXCEPT !.kind = "flush"]]
            /\ ipc' = [ipc EXCEPT ![i] = "acquire"]
       ELSE UNCHANGED <<ipc, iop>>
    /\ UNCHANGED <<disk, tmp, held, now, inst, applied, crashes, ovars>>
    /\ UNCHANGED xvars

\* reset(): straight to the lock.
BeginReset(i) ==
    /\ ipc[i] = "ready"
    /\ calls < MaxCalls
    /\ calls' = calls + 1
    /\ iop' = [iop EXCEPT ![i] = [NoOp EXCEPT !.kind = "reset"]]
    /\ ipc' = [ipc EXCEPT ![i] = "acquire"]
    /\ UNCHANGED <<disk, tmp, held, now, inst, applied, crashes, ovars>>
    /\ UNCHANGED xvars

\* __init__ of a new instance in the same process slot, then _load().
BeginLoad(i) ==
    /\ ipc[i] = "ready"
    /\ calls < MaxCalls
    /\ calls' = calls + 1
    /\ inst' = [inst EXCEPT ![i].chapters = EmptyChapters, ![i].dirty = FALSE]
    /\ iop' = [iop EXCEPT ![i] = [NoOp EXCEPT !.kind = "load"]]
    /\ ipc' = [ipc EXCEPT ![i] = "acquire"]
    /\ UNCHANGED <<disk, tmp, held, now, applied, crashes, ovars>>
    /\ UNCHANGED xvars

\* Variant: the lock does not exclude other holders.
AcquireShared(i) ==
    /\ ipc[i] = "acquire"
    /\ held' = held \cup {i}
    /\ ipc' = [ipc EXCEPT ![i] = IF iop[i].kind \in {"save"} THEN "save_tmp"
                                 ELSE "locked"]
    /\ UNCHANGED <<disk, tmp, now, inst, iop, applied, crashes, calls, ovars>>
    /\ UNCHANGED xvars

\* FileLock.__enter__: exclusive.
Acquire(i) ==
    /\ ipc[i] = "acquire"
    /\ held = {}
    /\ held' = held \cup {i}
    /\ ipc' = [ipc EXCEPT ![i] = IF iop[i].kind \in {"save"} THEN "save_tmp"
                                 ELSE "locked"]
    /\ UNCHANGED <<disk, tmp, now, inst, iop, applied, crashes, calls, ovars>>
    /\ UNCHANGED xvars

\* FileLock timeout while another process holds the lock: the call raises.
AcquireTimeout(i) ==
    /\ ipc[i] = "acquire"
    /\ held # {}
    /\ ipc' = [ipc EXCEPT ![i] = "ready"]
    /\ iop' = [iop EXCEPT ![i] = NoOp]
    /\ UNCHANGED <<disk, tmp, held, now, inst, applied, crashes, calls, ovars>>
    /\ UNCHANGED xvars

\* Variant: the instance keeps its in-memory chapters instead of reloading.
ReadFileKeepsMemory(i) ==
    /\ ipc[i] = "locked"
    /\ iop[i].kind \in {"load"} \cup MarkKinds
    /\ ipc' = [ipc EXCEPT ![i] = IF iop[i].kind = "load" THEN "release" ELSE "merge"]
    /\ iop' = [iop EXCEPT ![i].after =
                 IF iop[i].kind = "load" THEN "release" ELSE "merge"]
    /\ UNCHANGED <<disk, tmp, held, now, inst, applied, crashes, calls, ovars>>
    /\ UNCHANGED <<cvars, lvars, pvars, evars, uvars>>

\* _load_unlocked under the lock (from _load and from autosave _mark_entry).
\* An exception leaves the with block, which drops the lock, and then the
\* call: a constructor that raised leaves no instance behind.
ReadFile(i) ==
    /\ ipc[i] = "locked"
    /\ iop[i].kind \in {"load"} \cup MarkKinds
    /\ LET m == _load_unlocked(disk[Dir]) IN
       /\ raises' = [raises EXCEPT ![i] = m.raised]
       /\ IF m.raised # "none"
          THEN /\ held' = held \ {i}
               /\ ipc' = [ipc EXCEPT ![i] = IF iop[i].kind = "load"
                                            THEN "crashed" ELSE "ready"]
               /\ iop' = [iop EXCEPT ![i] = NoOp]
               /\ UNCHANGED inst
          ELSE /\ SetMem(i, m)
               /\ ipc' = [ipc EXCEPT ![i] =
                            IF m.dirty /\ inst[i].autosave THEN "save_tmp"
                            ELSE IF iop[i].kind = "load" THEN "release"
                            ELSE "merge"]
               /\ iop' = [iop EXCEPT ![i].after =
                            IF iop[i].kind = "load" THEN "release" ELSE "merge"]
               /\ UNCHANGED held
    /\ UNCHANGED <<disk, tmp, now, applied, crashes, calls, ovars>>
    /\ UNCHANGED <<cvars, origin, pvars, evars, uvars>>

\* autosave _mark_entry after the reload: merge, compare, store.
Merge(i) ==
    /\ ipc[i] = "merge"
    /\ LET m == _mark_entry_memory(Mem(i), iop[i].chapter_id,
                                   UpdatesOf(iop[i].kind, iop[i].ts, iop[i].arg))
       IN /\ SetMem(i, m)
          /\ ipc' = [ipc EXCEPT ![i] = IF m = Mem(i) THEN "release" ELSE "save_tmp"]
    /\ iop' = [iop EXCEPT ![i].after = "release"]
    /\ UNCHANGED <<disk, tmp, held, now, applied, crashes, calls, ovars>>
    /\ UNCHANGED xvars

\* flush(): the second _dirty test, under the lock.
FlushLocked(i) ==
    /\ ipc[i] = "locked"
    /\ iop[i].kind = "flush"
    /\ ipc' = [ipc EXCEPT ![i] = IF inst[i].dirty THEN "save_tmp" ELSE "release"]
    /\ UNCHANGED <<disk, tmp, held, now, inst, iop, applied, crashes, calls, ovars>>
    /\ UNCHANGED xvars

\* reset() under the lock.
ResetLocked(i) ==
    /\ ipc[i] = "locked"
    /\ iop[i].kind = "reset"
    /\ SetMem(i, [chapters |-> EmptyChapters, dirty |-> FALSE])
    /\ disk' = [disk EXCEPT ![Dir] = NoFile]
    /\ ipc' = [ipc EXCEPT ![i] = "release"]
    /\ UNCHANGED <<tmp, held, now, iop, applied, crashes, calls, ovars>>
    /\ UNCHANGED xvars

\* Variant: json.dump writes straight into the manifest path.
SaveWritesInPlace(i) ==
    /\ ipc[i] = "save_tmp"
    /\ disk' = [disk EXCEPT ![Dir] = PartialFile(SavedPayload(inst[i].chapters))]
    /\ tmp' = [tmp EXCEPT ![i] = PartialFile(SavedPayload(inst[i].chapters))]
    /\ ipc' = [ipc EXCEPT ![i] = "save_write"]
    /\ UNCHANGED <<held, now, inst, iop, applied, crashes, calls, ovars>>
    /\ UNCHANGED xvars

\* _save_unlocked: NamedTemporaryFile(...) opened, json.dump under way.
SaveCreateTmp(i) ==
    /\ ipc[i] = "save_tmp"
    /\ tmp' = [tmp EXCEPT ![i] = PartialFile(SavedPayload(inst[i].chapters))]
    /\ ipc' = [ipc EXCEPT ![i] = "save_write"]
    /\ UNCHANGED <<disk, held, now, inst, iop, applied, crashes, calls, ovars>>
    /\ UNCHANGED xvars

\* _save_unlocked: json.dump finished and the temporary file closed.
SaveWriteTmp(i) ==
    /\ ipc[i] = "save_write"
    /\ tmp' = [tmp EXCEPT ![i] = WholeFile(tmp[i].payload)]
    /\ ipc' = [ipc EXCEPT ![i] = "save_replace"]
    /\ UNCHANGED <<disk, held, now, inst, iop, applied, crashes, calls, ovars>>
    /\ UNCHANGED xvars

\* _save_unlocked: temp_path.replace(self.path); self._dirty = False.
SaveReplace(i) ==
    /\ ipc[i] = "save_replace"
    /\ disk' = [disk EXCEPT ![Dir] = tmp[i]]
    /\ tmp' = [tmp EXCEPT ![i] = NoFile]
    /\ inst' = [inst EXCEPT ![i].dirty = FALSE]
    /\ ipc' = [ipc EXCEPT ![i] = iop[i].after]
    /\ UNCHANGED <<held, now, iop, applied, crashes, calls, ovars>>
    /\ UNCHANGED xvars

\* FileLock.__exit__ and return.
Release(i) ==
    /\ ipc[i] = "release"
    /\ held' = held \ {i}
    /\ ipc' = [ipc EXCEPT ![i] = "ready"]
    /\ iop' = [iop EXCEPT ![i] = NoOp]
    /\ applied' = IF iop[i].kind \in MarkKinds
                  THEN [applied EXCEPT ![iop[i].chapter_id] = StatusOfMark(iop[i].kind)]
                  ELSE applied
    /\ UNCHANGED <<disk, tmp, now, inst, crashes, calls, ovars>>
    /\ UNCHANGED xvars

\* The process dies inside a call: the OS drops its lock, its temporary file
\* stays behind.
Crash(i) ==
    /\ ipc[i] \notin {"ready", "crashed"}
    /\ crashes < MaxCrashes
    /\ crashes' = crashes + 1
    /\ held' = held \ {i}
    /\ ipc' = [ipc EXCEPT ![i] = "crashed"]
    /\ iop' = [iop EXCEPT ![i] = NoOp]
    /\ UNCHANGED <<disk, tmp, now, inst, applied, calls, ovars>>
    /\ UNCHANGED xvars

\* A new process takes the slot and constructs its manifest: __init__, _load().
Restart(i) ==
    /\ ipc[i] = "crashed"
    /\ inst' = [inst EXCEPT ![i].chapters = EmptyChapters, ![i].dirty = FALSE]
    /\ iop' = [iop EXCEPT ![i] = [NoOp EXCEPT !.kind = "load"]]
    /\ ipc' = [ipc EXCEPT ![i] = "acquire"]
    /\ UNCHANGED <<disk, tmp, held, now, applied, crashes, calls, ovars>>
    /\ UNCHANGED xvars

----------------------------------------------------------------------------
(* Text: names are sequences of one-character strings *)

Digits == <<"0", "1", "2", "3", "4", "5", "6", "7", "8", "9">>
LowerCase ==
    <<"a", "b", "c", "d", "e", "f", "g", "h", "i", "j", "k", "l",
      "m", "n", "o", "p", "q", "r", "s", "t", "u", "v", "w", "x",
      "y", "z">>
UpperCase ==
    <<"A", "B", "C", "D", "E", "F", "G", "H", "I", "J", "K", "L",
      "M", "N", "O", "P", "Q", "R", "S", "T", "U", "V", "W", "X",
      "Y", "Z">>

IsDigit(c) == \E i \in DOMAIN Digits : Digits[i] = c
IsLower(c) == \E i \in DOMAIN LowerCase : LowerCase[i] = c
IsUpper(c) == \E i \in DOMAIN UpperCase : UpperCase[i] = c

\* \w of the re module
IsWord(c) == IsDigit(c) \/ IsLower(c) \/ IsUpper(c) \/ c = "_"

\* string.punctuation, but for the backquote
Punctuation ==
    {"!", "\"", "#", "$", "%", "&", "'", "(", ")", "*", "+", ",",
     "-", ".", "/", ":", ";", "<", "=", ">", "?", "@", "[", "\\",
     "]", "^", "_", "{", "|", "}", "~"}
Whitespace == {" "}

ToLower(c) ==
    IF IsUpper(c) THEN LowerCase[CHOOSE i \in DOMAIN UpperCase : UpperCase[i] = c]
    ELSE c

ToUpper(c) ==
    IF IsLower(c) THEN UpperCase[CHOOSE i \in DOMAIN LowerCase : LowerCase[i] = c]
    ELSE c

\* str.lower()
Lower(text) == [i \in DOMAIN text |-> ToLower(text[i])]

RECURSIVE TitleCase(_, _)
TitleCase(text, in_word) ==
    IF text = <<>> THEN <<>>
    ELSE LET c == Head(text)
         IN IF IsLower(c) \/ IsUpper(c)
            THEN <<IF in_word THEN ToLower(c) ELSE ToUpper(c)>>
                     \o TitleCase(Tail(text), TRUE)
            ELSE <<c>> \o TitleCase(Tail(text), FALSE)

\* str.title()
Title(text) == TitleCase(text, FALSE)

RECURSIVE LStrip(_, _)
LStrip(text, chars) ==
    IF text # <<>> /\ Head(text) \in chars THEN LStrip(Tail(text), chars)
    ELSE text

RECURSIVE RStrip(_, _)
RStrip(text, chars) ==
    IF text # <<>> /\ text[Len(text)] \in chars
    THEN RStrip(SubSeq(text, 1, Len(text) - 1), chars)
    ELSE text

\* str.strip(chars)
Strip(text, chars) == RStrip(LStrip(text, chars), chars)

\* word in text
Contains(text, word) ==
    \E i \in 1..(Len(text) - Len(word) + 1) :
        SubSeq(text, i, i + Len(word) - 1) = word

\* " ".join(components)
RECURSIVE Join(_)
Join(components) ==
    IF components = <<>> THEN <<>>
    ELSE IF Len(components) = 1 THEN Head(components)
    ELSE Head(components) \o <<" ">> \o Join(Tail(components))

\* int(text) of digits with surrounding whitespace; None for anything else
\* made of the characters above
None == [is_none |-> TRUE, value |-> 0]
Number(n) == [is_none |-> FALSE, value |-> n]

RECURSIVE DigitsValue(_)
DigitsValue(text) ==
    IF text = <<>> THEN 0
    ELSE DigitsValue(SubSeq(text, 1, Len(text) - 1)) * 10
           + (CHOOSE i \in DOMAIN Digits : Digits[i] = text[Len(text)]) - 1

ParseInt(text) ==
    LET stripped == Strip(text, Whitespace)
    IN IF stripped # <<>> /\ \A i \in DOMAIN stripped : IsDigit(stripped[i])
       THEN Number(DigitsValue(stripped))
       ELSE None

\* str(n)
RECURSIVE Str(_)
Str(n) ==
    IF n < 0 THEN <<"-">> \o Str(0 - n)
    ELSE IF n < 10 THEN <<Digits[n + 1]>>
    ELSE Str(n \div 10) \o <<Digits[(n % 10) + 1]>>

\* f"{text:0>3}"
RECURSIVE ZeroPad(_)
ZeroPad(text) == IF Len(text) >= 3 THEN text ELSE ZeroPad(<<"0">> \o text)

\* utils.py
_contains_keywords(text, keywords) ==
    \A keyword \in keywords : Contains(Lower(text), Lower(keyword))

chapter_name_to_int(name) == ParseInt(LStrip(name, {"#"}))

is_oneshot(chapter_name, chapter_subtitle) ==
    IF ~chapter_name_to_int(chapter_name).is_none THEN FALSE
    ELSE \/ _contains_keywords(chapter_name, {<<"o", "n", "e">>, <<"s", "h", "o", "t">>})
         \/ _contains_keywords(chapter_subtitle, {<<"o", "n", "e">>, <<"s", "h", "o", "t">>})

\* re.sub(r"[^\w]+", " ", path)
RECURSIVE SubNonWord(_)
SubNonWord(path) ==
    IF path = <<>> THEN <<>>
    ELSE IF IsWord(Head(path)) THEN <<Head(path)>> \o SubNonWord(Tail(path))
    ELSE IF Len(path) > 1 /\ ~IsWord(path[2]) THEN SubNonWord(Tail(path))
    ELSE <<" ">> \o SubNonWord(Tail(path))

escape_path(path) == Strip(SubNonWord(path), Punctuation \cup Whitespace)

\* pathlib: PurePath.suffix, with_suffix and stem of a file name
RECURSIVE RFind(_, _)
RFind(name, c) ==
    IF name = <<>> THEN 0
    ELSE IF name[Len(name)] = c THEN Len(name)
    ELSE RFind(SubSeq(name, 1, Len(name) - 1), c)

Suffix(name) ==
    LET i == RFind(name, ".")
    IN IF 1 < i /\ i < Len(name) THEN SubSeq(name, i, Len(name)) ELSE <<>>

Stem(name) == SubSeq(name, 1, Len(name) - Len(Suffix(name)))

with_suffix(name, suffix) == Stem(name) \o suffix

Extension(format) ==
    IF format = "cbz" THEN <<".", "c", "b", "z">> ELSE <<".", "p", "d", "f">>

\* constants.py: Language(language).name
ENGLISH == 0
SPANISH == 1
LanguageName(language) ==
    IF language = ENGLISH THEN <<"E", "N", "G", "L", "I", "S", "H">>
    ELSE <<"S", "P", "A", "N", "I", "S", "H">>

----------------------------------------------------------------------------
(* Chapter file names: the exporters and the planner *)

\* exporter_base.py
_is_extra(chapter_name) == Lower(Strip(chapter_name, {"#"})) = <<"e", "x">>

\* next_chapter is None: the viewer names no following chapter
NoChapterName == <<>>

Unknown == <<"[", "U", "n", "k", "n", "o", "w", "n", "]">>
Oneshot == <<"[", "O", "n", "e", "s", "h", "o", "t", "]">>
Web == <<"(", "w", "e", "b", ")">>

_format_chapter_prefix(title_name, chapter_name, language, next_name, oneshot, extra) ==
    LET by_next == ~oneshot /\ extra /\ next_name # NoChapterName
        parsed == IF oneshot THEN Number(0)
                  ELSE IF by_next THEN chapter_name_to_int(next_name)
                  ELSE chapter_name_to_int(chapter_name)
        chapter_number == IF by_next /\ ~parsed.is_none
                          THEN Number(parsed.value - 1) ELSE parsed
        prefix_letter == IF oneshot \/ chapter_number.is_none THEN <<>>
                         ELSE IF chapter_number.value < 1000 THEN <<"c">>
                         ELSE <<"d">>
        suffix == IF by_next THEN <<"x", "1">> ELSE <<>>
        formatted == IF chapter_number.is_none THEN escape_path(chapter_name)
                     ELSE ZeroPad(Str(chapter_number.value))
        label == IF language # ENGLISH
                 THEN << <<"[">> \o LanguageName(language) \o <<"]">> >>
                 ELSE <<>>
    IN Join(<<title_name>> \o label
              \o << <<"-">>, prefix_letter \o formatted \o suffix, Web >>)

_format_chapter_suffix(extra_info) == Join(extra_info \o <<Unknown>>)

\* ExporterBase.__init__: self.title_name and self.chapter_name
ExporterBase(title, chapter, next_chapter_name, with_chapter_title) ==
    LET title_name == Title(escape_path(title.name))
        oneshot == is_oneshot(chapter.name, chapter.sub_title)
        extra_info ==
            (IF oneshot THEN <<Oneshot>> ELSE <<>>)
              \o (IF with_chapter_title
                  THEN << <<"[">> \o escape_path(chapter.sub_title) \o <<"]">> >>
                  ELSE <<>>)
        prefix == _format_chapter_prefix(title_name, chapter.name, title.language,
                                         next_chapter_name, oneshot,
                                         _is_extra(chapter.name))
    IN [title_name |-> title_name,
        chapter_name |-> prefix \o <<" ">> \o _format_chapter_suffix(extra_info)]

\* CBZExporter.__init__ / PDFExporter.__init__: the name of self.path
ExporterPath(exporter, format) ==
    with_suffix(exporter.chapter_name, Extension(format))

\* downloader.py: text.encode("latin1").decode("utf8") gives back a text of
\* the ASCII characters above
_prepare_filename(text) == escape_path(text)

\* ChapterPlanner
build_expected_filename(title_name, chapter_obj, sub_title) ==
    escape_path(title_name) \o <<" ", "-", " ">>
      \o escape_path(Strip(LStrip(chapter_obj.name, {"#"}), Whitespace))
      \o <<" ", "-", " ">> \o escape_path(sub_title)

----------------------------------------------------------------------------
(* downloader.py: helpers *)

Runs == Inst

RECURSIVE SortedDescending(_)
\* Variant: the chapters are put in descending order.
SortedDescending(S) ==
    IF S = {} THEN <<>>
    ELSE LET m == CHOOSE x \in S : \A y \in S : y <= x
         IN <<m>> \o SortedDescending(S \ {m})

RECURSIVE SortedSeq(_)
\* sorted(chapters_to_download)
SortedSeq(S) ==
    IF S = {} THEN <<>>
    ELSE LET m == CHOOSE x \in S : \A y \in S : x <= y
         IN <<m>> \o SortedSeq(S \ {m})

SeqToSet(q) == {q[k] : k \in DOMAIN q}

\* _MutableDownloadSummary()
ZeroSummary ==
    [downloaded |-> 0, skipped_manifest |-> 0, failed |-> 0,
     failed_chapter_ids |-> <<>>]

NoOutcome == [kind |-> "none", has_summary |-> FALSE, summary |-> ZeroSummary]

ClosedManifest == [open |-> FALSE, title |-> 0, chapters |-> EmptyChapters,
                   dirty |-> FALSE]

NoTitle == [title |-> 0, chapter |-> 0, queue |-> <<>>, planned |-> {}]

\* The normalized mapping, in iteration order: title -> requested chapter ids.
NormalizedTitles == SortedSeq({t \in Titles : request \cap ChaptersOf(t) # {}})

\* _process_title: escape_path(title_detail.name).title(), the directory of
\* the title under the destination
ExportPath(t) == Title(escape_path(catalog.titles[t].name))

\* _process_chapter: the chapter the viewer's last page names, its sub_title
\* passed through _prepare_filename, and the chapter after it in the title
CurrentChapter(c) ==
    [catalog.chapters[c] EXCEPT !.sub_title = _prepare_filename(@)]

NextChapterName(c) ==
    IF c + 1 \in ChaptersOf(TitleOf(c)) THEN catalog.chapters[c + 1].name
    ELSE NoChapterName

\* self.exporter(title=title_detail, chapter=current_chapter, ...)
ExporterOf(c) ==
    ExporterBase(catalog.titles[TitleOf(c)], CurrentChapter(c),
                 NextChapterName(c), add_chapter_title)

\* The files of the chapter exporters in export_path: the exporter of
\* chapter c wrote Path(destination, title_name) / ExporterPath.
ChapterFiles(export_path) ==
    {ExporterPath(ExporterOf(c), output_format) :
        c \in {x \in exported : ExporterOf(x).title_name = export_path}}

_chapter_output_extension ==
    IF output_format \in {"pdf", "cbz"} THEN Extension(output_format)
    ELSE <<>>

\* file.stem for file in export_path.glob(f"*.{extension}")
_get_existing_files(export_path) ==
    IF _chapter_output_extension = <<>> THEN {}
    ELSE {Stem(file) : file \in {f \in ChapterFiles(export_path) :
             /\ Len(f) >= Len(_chapter_output_extension)
             /\ SubSeq(f, Len(f) - Len(_chapter_output_extension) + 1, Len(f))
                  = _chapter_output_extension}}

\* ChapterPlanner.extract_chapter_data: sub_title=prepare_filename(...)
ChapterMetadata(c) ==
    [chapter_id |-> c, sub_title |-> _prepare_filename(catalog.chapters[c].sub_title)]

\* The planner's stem of chapter c, as filter_chapters_to_download builds it.
ExpectedFilename(c) ==
    build_expected_filename(Title(escape_path(catalog.titles[TitleOf(c)].name)),
                            catalog.chapters[c], ChapterMetadata(c).sub_title)

\* Variant: the ids that are not requested are kept.
FilterKeepsUnrequested(chapter_data, title_dump, title_name, existing_files, requested_chapter_ids) ==
    SelectSeq(chapter_data, LAMBDA chapter_id :
        /\ chapter_id \in title_dump
        /\ build_expected_filename(Title(escape_path(title_name)),
                                   catalog.chapters[chapter_id],
                                   ChapterMetadata(chapter_id).sub_title)
              \notin existing_files)

\* ChapterPlanner.filter_chapters_to_download: the loop over the metadata
\* skips a chapter find_chapter_by_id does not find in the title dump and
\* appends the ids whose expected stem is not on disk; the list returned
\* keeps the requested ones.
filter_chapters_to_download(chapter_data, title_dump, title_name, existing_files, requested_chapter_ids) ==
    LET chapters_to_download ==
            SelectSeq(chapter_data, LAMBDA chapter_id :
                /\ chapter_id \in title_dump
                /\ build_expected_filename(Title(escape_path(title_name)),
                                           catalog.chapters[chapter_id],
                                           ChapterMetadata(chapter_id).sub_title)
                      \notin existing_files)
    IN SelectSeq(chapters_to_download,
                 LAMBDA chapter_id : chapter_id \in requested_chapter_ids)

\* A call of filter_chapters_to_download for title 1 returns.
FilterChapters ==
    /\ plan_pc = "called"
    /\ planned_ids' = filter_chapters_to_download(
                          plan_args.chapter_data, plan_args.title_dump,
                          catalog.titles[1].name, plan_args.existing_files,
                          plan_args.requested_chapter_ids)
    /\ plan_pc' = "returned"
    /\ UNCHANGED plan_args
    /\ UNCHANGED <<disk, now, mvars, ovars, cvars, lvars, pvars, evars,
                   dvars, nvars, tvars>>

\* ChapterPlanner.filter_chapters_to_download over _get_existing_files:
\* requested chapters of the title whose expected stem is not among the
\* stems found in the export directory.
_filter_chapters_to_download(t) ==
    {c \in ChaptersOf(t) \cap request :
        ExpectedFilename(c) \notin _get_existing_files(ExportPath(t))}

\* Variant: drops every chapter the manifest has an entry for.
ExcludeEveryRecordedChapter(chapter_ids, chapters) ==
    LET pending == {c \in chapter_ids : c \notin DOMAIN chapters}
    IN [pending |-> pending,
        skipped_count |-> Cardinality(chapter_ids) - Cardinality(pending)]

\* [pending, skipped_count]
_exclude_manifest_completed_chapters(chapter_ids, chapters) ==
    LET pending == {c \in chapter_ids : ~is_completed(chapters, c)}
    IN [pending |-> pending,
        skipped_count |-> Cardinality(chapter_ids) - Cardinality(pending)]

\* flush() of a manual-mode manifest as one locked section: <<manifest, file>>.
flush(m, file) ==
    IF ~m.dirty THEN <<m, file>>
    ELSE <<[m EXCEPT !.dirty = FALSE], WholeFile(SavedPayload(m.chapters))>>

\* manifest.mark_*() on the run's manual-mode manifest.
Marked(m, kind, chapter_id, ts, arg) ==
    LET r == _mark_entry_memory([chapters |-> m.chapters, dirty |-> m.dirty],
                                chapter_id, UpdatesOf(kind, ts, arg))
    IN [m EXCEPT !.chapters = r.chapters, !.dirty = r.dirty]

\* "manifest if self.resume else None" is a manifest.
UsesManifest(r) == resume[r] /\ man[r].open

\* The for loop of _process_title moves on: next chapter or the finally block.
Advance(r) ==
    IF cur[r].queue = <<>>
    THEN /\ pc' = [pc EXCEPT ![r] = "title_finally"]
         /\ UNCHANGED cur
    ELSE /\ pc' = [pc EXCEPT ![r] = "load_pages"]
         /\ cur' = [cur EXCEPT ![r].chapter = Head(cur[r].queue),
                               ![r].queue = Tail(cur[r].queue)]

----------------------------------------------------------------------------
(* downloader.py: DownloadMixin, one step per call that can fail or be       *)
(* interrupted                                                              *)

\* download(): summary = _MutableDownloadSummary(); clear caches.
DoStartDownload(r, res, rst) ==
    /\ pc[r] = "idle"
    /\ runs[r] < MaxRuns
    /\ runs' = [runs EXCEPT ![r] = @ + 1]
    /\ resume' = [resume EXCEPT ![r] = res]
    /\ manifest_reset' = [manifest_reset EXCEPT ![r] = rst]
    /\ summary' = [summary EXCEPT ![r] = ZeroSummary]
    /\ exc' = [exc EXCEPT ![r] = "none"]
    /\ outcome' = [outcome EXCEPT ![r] = NoOutcome]
    /\ finished' = [finished EXCEPT ![r] = {}]
    /\ attempted' = [attempted EXCEPT ![r] = {}]
    /\ queued' = [queued EXCEPT ![r] = {}]
    /\ cur' = [cur EXCEPT ![r] = NoTitle]
    /\ man' = [man EXCEPT ![r] = ClosedManifest]
    /\ pc' = [pc EXCEPT ![r] = "normalize"]
    /\ UNCHANGED <<disk, now, tmp, held, inst, ipc, iop, applied, crashes, calls,
                     request, output_format, titles, error, exported>>

\* download() of a DownloadMixin whose API hooks are stubs.
StartDownload(r, res, rst) ==
    /\ DoStartDownload(r, res, rst)
    /\ UNCHANGED xvars

\* download(): _prepare_normalized_manga_list, which fetches and may raise.
DoNormalize(r, ok) ==
    /\ pc[r] = "normalize"
    /\ IF ok
       THEN /\ titles' = [titles EXCEPT ![r] = NormalizedTitles]
            /\ pc' = [pc EXCEPT ![r] = "title"]
            /\ UNCHANGED exc
       ELSE /\ exc' = [exc EXCEPT ![r] = "Exception"]
            /\ pc' = [pc EXCEPT ![r] = "download_finally"]
            /\ UNCHANGED titles
    /\ UNCHANGED <<disk, now, tmp, held, inst, ipc, iop, applied, crashes, calls,
                     request, output_format, resume, manifest_reset, summary,
                     cur, man, error, outcome, exported, runs, finished,
                     attempted, queued>>

\* The same with a stubbed _prepare_normalized_manga_list.
Normalize(r, ok) ==
    /\ DoNormalize(r, ok)
    /\ UNCHANGED xvars

\* _process_title: manifest = None; title_dump = self._get_title_details(...).
\* A failing fetch leaves through the finally block; nothing catches it.
DoGetTitleDetails(r, ok) ==
    /\ pc[r] = "title"
    /\ titles[r] # <<>>
    /\ cur' = [cur EXCEPT ![r] = [NoTitle EXCEPT !.title = Head(titles[r])]]
    /\ man' = [man EXCEPT ![r] = ClosedManifest]
    /\ IF ok
       THEN /\ pc' = [pc EXCEPT ![r] = "open"]
            /\ UNCHANGED exc
       ELSE /\ exc' = [exc EXCEPT ![r] = "Exception"]
            /\ pc' = [pc EXCEPT ![r] = "title_finally"]
    /\ UNCHANGED <<disk, now, tmp, held, inst, ipc, iop, applied, crashes, calls,
                     request, output_format, resume, manifest_reset, summary,
                     titles, error, outcome, exported, runs, finished,
                     attempted, queued>>

\* The same with a stubbed _get_title_details.
GetTitleDetails(r, ok) ==
    /\ DoGetTitleDetails(r, ok)
    /\ UNCHANGED xvars

\* _process_title: TitleDownloadManifest(export_path, autosave=False).
OpenManifest(r) ==
    /\ pc[r] = "open"
    /\ (resume[r] \/ manifest_reset[r]) => held = {}
    /\ LET m == _load_unlocked(disk[cur[r].title]) IN
       IF (resume[r] \/ manifest_reset[r]) /\ m.raised # "none"
       THEN /\ exc' = [exc EXCEPT ![r] = "Exception"]
            /\ pc' = [pc EXCEPT ![r] = "title_finally"]
            /\ UNCHANGED man
       ELSE /\ IF resume[r] \/ manifest_reset[r]
               THEN man' = [man EXCEPT ![r] =
                              [open |-> TRUE, title |-> cur[r].title,
                               chapters |-> m.chapters, dirty |-> m.dirty]]
               ELSE UNCHANGED man
            /\ pc' = [pc EXCEPT ![r] = IF manifest_reset[r] THEN "reset"
                                       ELSE "plan"]
            /\ UNCHANGED exc
    /\ UNCHANGED <<disk, now, tmp, held, inst, ipc, iop, applied, crashes, calls,
                     request, output_format, resume, manifest_reset, summary,
                     titles, cur, error, outcome, exported, runs,
                     finished, attempted, queued>>
    /\ UNCHANGED xvars

\* Variant: reset() removes the file and keeps what the instance loaded.
ResetKeepsMemory(r) ==
    /\ pc[r] = "reset"
    /\ held = {}
    /\ UNCHANGED man
    /\ disk' = [disk EXCEPT ![cur[r].title] = NoFile]
    /\ pc' = [pc EXCEPT ![r] = "plan"]
    /\ UNCHANGED <<now, tmp, held, inst, ipc, iop, applied, crashes, calls, request,
                     output_format, resume, manifest_reset, summary, titles,
                     cur, exc, error, outcome, exported, runs, finished,
                     attempted, queued>>
    /\ UNCHANGED xvars

\* _process_title: manifest.reset().
ResetManifest(r) ==
    /\ pc[r] = "reset"
    /\ held = {}
    /\ man' = [man EXCEPT ![r].chapters = EmptyChapters, ![r].dirty = FALSE]
    /\ disk' = [disk EXCEPT ![cur[r].title] = NoFile]
    /\ pc' = [pc EXCEPT ![r] = "plan"]
    /\ UNCHANGED <<now, tmp, held, inst, ipc, iop, applied, crashes, calls, request,
                     output_format, resume, manifest_reset, summary, titles,
                     cur, exc, error, outcome, exported, runs, finished,
                     attempted, queued>>
    /\ UNCHANGED xvars

\* _process_title: planner, manifest filter, skipped_manifest, early return,
\* sorted() and the first chapter of the loop.
Plan(r) ==
    /\ pc[r] = "plan"
    /\ LET selected == _filter_chapters_to_download(cur[r].title)
           x == IF UsesManifest(r)
                THEN _exclude_manifest_completed_chapters(selected, man[r].chapters)
                ELSE [pending |-> selected, skipped_count |-> 0]
           queue == SortedSeq(x.pending)
       IN /\ summary' = [summary EXCEPT ![r].skipped_manifest = @ + x.skipped_count]
          /\ queued' = [queued EXCEPT ![r] = @ \cup x.pending]
          /\ IF queue = <<>>
             THEN /\ pc' = [pc EXCEPT ![r] = "title_finally"]
                  /\ cur' = [cur EXCEPT ![r].planned = selected]
             ELSE /\ pc' = [pc EXCEPT ![r] = "load_pages"]
                  /\ cur' = [cur EXCEPT ![r].planned = selected,
                                        ![r].chapter = Head(queue),
                                        ![r].queue = Tail(queue)]
    /\ UNCHANGED <<disk, now, tmp, held, inst, ipc, iop, applied, crashes, calls,
                     request, output_format, resume, manifest_reset, titles,
                     man, exc, error, outcome, exported, runs, finished,
                     attempted>>
    /\ UNCHANGED xvars

\* _process_chapter: viewer = self._load_pages(chapter_id); _has_last_page.
DoLoadPages(r, result) ==
    /\ pc[r] = "load_pages"
    /\ attempted' = [attempted EXCEPT ![r] = @ \cup {cur[r].chapter}]
    /\ CASE result = "ok" ->
              /\ pc' = [pc EXCEPT ![r] = "mark_started"]
              /\ UNCHANGED error
         [] result = "no_last_page" ->
              /\ pc' = [pc EXCEPT ![r] = "except"]
              /\ error' = [error EXCEPT ![r] = "subscription"]
         [] result = "error" ->
              /\ pc' = [pc EXCEPT ![r] = "except"]
              /\ error' = [error EXCEPT ![r] = "boom"]
    /\ UNCHANGED <<disk, now, tmp, held, inst, ipc, iop, applied, crashes, calls,
                     request, output_format, resume, manifest_reset, summary,
                     titles, cur, man, exc, outcome, exported, runs,
                     finished, queued>>

\* The same with a stubbed _load_pages.
LoadPages(r, result) ==
    /\ DoLoadPages(r, result)
    /\ UNCHANGED xvars

\* _process_chapter: manifest.mark_started(...).
MarkStarted(r) ==
    /\ pc[r] = "mark_started"
    /\ IF UsesManifest(r)
       THEN man' = [man EXCEPT ![r] = Marked(man[r], "mark_started", cur[r].chapter,
                                             _utc_timestamp, output_format)]
       ELSE UNCHANGED man
    /\ pc' = [pc EXCEPT ![r] = "export"]
    /\ UNCHANGED <<disk, now, tmp, held, inst, ipc, iop, applied, crashes, calls,
                     request, output_format, resume, manifest_reset, summary,
                     titles, cur, exc, error, outcome, exported, runs,
                     finished, attempted, queued>>
    /\ UNCHANGED xvars

\* _process_chapter: exporter, _process_chapter_pages, exporter.close().
Export(r, ok) ==
    /\ pc[r] = "export"
    /\ IF ok
       THEN /\ exported' = IF output_format \in {"pdf", "cbz"}
                           THEN exported \cup {cur[r].chapter} ELSE exported
            /\ pc' = [pc EXCEPT ![r] = "mark_completed"]
            /\ UNCHANGED error
       ELSE /\ error' = [error EXCEPT ![r] = "export"]
            /\ pc' = [pc EXCEPT ![r] = "except"]
            /\ UNCHANGED exported
    /\ UNCHANGED <<disk, now, tmp, held, inst, ipc, iop, applied, crashes, calls,
                     request, output_format, resume, manifest_reset, summary,
                     titles, cur, man, exc, outcome, runs, finished,
                     attempted, queued>>
    /\ UNCHANGED xvars

\* Variant: mark_completed is called without the exporter's path.
MarkCompletedWithoutPath(r) ==
    /\ pc[r] = "mark_completed"
    /\ IF UsesManifest(r)
       THEN man' = [man EXCEPT ![r] = Marked(man[r], "mark_completed",
                                             cur[r].chapter, _utc_timestamp, Null)]
       ELSE UNCHANGED man
    /\ finished' = [finished EXCEPT ![r] = @ \cup {cur[r].chapter}]
    /\ pc' = [pc EXCEPT ![r] = "count"]
    /\ UNCHANGED <<disk, now, tmp, held, inst, ipc, iop, applied, crashes, calls,
                     request, output_format, resume, manifest_reset, summary,
                     titles, cur, exc, error, outcome, exported, runs,
                     attempted, queued>>
    /\ UNCHANGED xvars

\* _process_chapter: manifest.mark_completed(chapter_id, output_path=...).
MarkCompleted(r) ==
    /\ pc[r] = "mark_completed"
    /\ IF UsesManifest(r)
       THEN man' = [man EXCEPT ![r] = Marked(man[r], "mark_completed",
                                             cur[r].chapter, _utc_timestamp, "path")]
       ELSE UNCHANGED man
    /\ finished' = [finished EXCEPT ![r] = @ \cup {cur[r].chapter}]
    /\ pc' = [pc EXCEPT ![r] = "count"]
    /\ UNCHANGED <<disk, now, tmp, held, inst, ipc, iop, applied, crashes, calls,
                     request, output_format, resume, manifest_reset, summary,
                     titles, cur, exc, error, outcome, exported, runs,
                     attempted, queued>>
    /\ UNCHANGED xvars

\* Variant: a chapter that went through is counted twice.
CountDownloadedTwice(r) ==
    /\ pc[r] = "count"
    /\ summary' = [summary EXCEPT ![r].downloaded = @ + 2]
    /\ Advance(r)
    /\ UNCHANGED <<disk, now, tmp, held, inst, ipc, iop, applied, crashes, calls,
                     request, output_format, resume, manifest_reset, titles,
                     man, exc, error, outcome, exported, runs, finished,
                     attempted, queued>>
    /\ UNCHANGED xvars

\* _process_title: summary.downloaded += 1.
CountDownloaded(r) ==
    /\ pc[r] = "count"
    /\ summary' = [summary EXCEPT ![r].downloaded = @ + 1]
    /\ Advance(r)
    /\ UNCHANGED <<disk, now, tmp, held, inst, ipc, iop, applied, crashes, calls,
                     request, output_format, resume, manifest_reset, titles,
                     man, exc, error, outcome, exported, runs, finished,
                     attempted, queued>>
    /\ UNCHANGED xvars

\* Variant: the newest failure is put in front of the list.
RecordFailureInFront(s, chapter_id) ==
    [s EXCEPT !.failed = @ + 1,
              !.failed_chapter_ids = <<chapter_id>> \o @]

\* _process_title: summary.failed += 1; failed_chapter_ids.append(chapter_id)
\* (the same two statements as RunReport.mark_failed).
RecordFailure(s, chapter_id) ==
    [s EXCEPT !.failed = @ + 1,
              !.failed_chapter_ids = Append(@, chapter_id)]

\* Variant: the handler leaves the chapter loop after recording the failure.
HandleFailureLeavesLoop(r) ==
    /\ pc[r] = "except"
    /\ UsesManifest(r) => held = {}
    /\ IF UsesManifest(r)
       THEN LET m == Marked(man[r], "mark_failed", cur[r].chapter,
                            _utc_timestamp, error[r])
                f == flush(m, disk[cur[r].title])
            IN /\ man' = [man EXCEPT ![r] = f[1]]
               /\ disk' = [disk EXCEPT ![cur[r].title] = f[2]]
       ELSE UNCHANGED <<man, disk>>
    /\ summary' = [summary EXCEPT ![r] = RecordFailure(@, cur[r].chapter)]
    /\ pc' = [pc EXCEPT ![r] = "title_finally"]
    /\ UNCHANGED cur
    /\ UNCHANGED <<now, tmp, held, inst, ipc, iop, applied, crashes, calls, request,
                     output_format, resume, manifest_reset, titles, exc,
                     error, outcome, exported, runs, finished, attempted, queued>>
    /\ UNCHANGED xvars

\* _process_title: except Exception as error: ...
HandleFailure(r) ==
    /\ pc[r] = "except"
    /\ UsesManifest(r) => held = {}
    /\ IF UsesManifest(r)
       THEN LET m == Marked(man[r], "mark_failed", cur[r].chapter,
                            _utc_timestamp, error[r])
                f == flush(m, disk[cur[r].title])
            IN /\ man' = [man EXCEPT ![r] = f[1]]
               /\ disk' = [disk EXCEPT ![cur[r].title] = f[2]]
       ELSE UNCHANGED <<man, disk>>
    /\ summary' = [summary EXCEPT ![r] = RecordFailure(@, cur[r].chapter)]
    /\ Advance(r)
    /\ UNCHANGED <<now, tmp, held, inst, ipc, iop, applied, crashes, calls, request,
                     output_format, resume, manifest_reset, titles, exc,
                     error, outcome, exported, runs, finished, attempted, queued>>
    /\ UNCHANGED xvars

\* A KeyboardInterrupt inside the try block of download(): "except Exception"
\* does not catch it; inside _process_title it leaves through the finally.
Interrupt(r) ==
    /\ pc[r] \in {"normalize", "title", "open", "reset", "plan", "load_pages",
                  "mark_started", "export", "mark_completed", "count", "except"}
    /\ exc' = [exc EXCEPT ![r] = "KeyboardInterrupt"]
    /\ pc' = [pc EXCEPT ![r] = IF pc[r] \in {"normalize", "title"}
                               THEN "download_finally" ELSE "title_finally"]
    /\ UNCHANGED <<disk, now, tmp, held, inst, ipc, iop, applied, crashes, calls,
                     request, output_format, resume, manifest_reset, summary,
                     titles, cur, man, error, outcome, exported, runs,
                     finished, attempted, queued>>
    /\ UNCHANGED xvars

\* Variant: the flush is skipped when an exception is leaving the title.
ProcessTitleFinallyFlushOnSuccess(r) ==
    /\ pc[r] = "title_finally"
    /\ UsesManifest(r) => held = {}
    /\ IF UsesManifest(r) /\ exc[r] = "none"
       THEN LET f == flush(man[r], disk[cur[r].title])
            IN /\ man' = [man EXCEPT ![r] = f[1]]
               /\ disk' = [disk EXCEPT ![cur[r].title] = f[2]]
       ELSE UNCHANGED <<man, disk>>
    /\ IF exc[r] # "none"
       THEN /\ pc' = [pc EXCEPT ![r] = "download_finally"]
            /\ UNCHANGED titles
       ELSE /\ titles' = [titles EXCEPT ![r] = Tail(@)]
            /\ pc' = [pc EXCEPT ![r] = IF Tail(titles[r]) = <<>>
                                       THEN "download_finally" ELSE "title"]
    /\ UNCHANGED <<now, tmp, held, inst, ipc, iop, applied, crashes, calls, request,
                     output_format, resume, manifest_reset, summary, cur,
                     exc, error, outcome, exported, runs, finished,
                     attempted, queued>>
    /\ UNCHANGED xvars

\* _process_title: finally: flush, clear the title's cache entries; then the
\* next title of _download, or the exception goes on to download().
DoProcessTitleFinally(r) ==
    /\ pc[r] = "title_finally"
    /\ UsesManifest(r) => held = {}
    /\ IF UsesManifest(r)
       THEN LET f == flush(man[r], disk[cur[r].title])
            IN /\ man' = [man EXCEPT ![r] = f[1]]
               /\ disk' = [disk EXCEPT ![cur[r].title] = f[2]]
       ELSE UNCHANGED <<man, disk>>
    /\ IF exc[r] # "none"
       THEN /\ pc' = [pc EXCEPT ![r] = "download_finally"]
            /\ UNCHANGED titles
       ELSE /\ titles' = [titles EXCEPT ![r] = Tail(@)]
            /\ pc' = [pc EXCEPT ![r] = IF Tail(titles[r]) = <<>>
                                       THEN "download_finally" ELSE "title"]
    /\ UNCHANGED <<now, tmp, held, inst, ipc, iop, applied, crashes, calls, request,
                     output_format, resume, manifest_reset, summary, cur,
                     exc, error, outcome, exported, runs, finished,
                     attempted, queued>>

\* The same with the stub of _clear_api_caches_for_title.
ProcessTitleFinally(r) ==
    /\ DoProcessTitleFinally(r)
    /\ UNCHANGED xvars

\* download(): finally: clear caches; return summary.as_immutable(), or the
\* exception leaves download() as it is.  The locals of the call are gone.
DoDownloadFinally(r) ==
    /\ pc[r] = "download_finally"
    /\ outcome' = [outcome EXCEPT ![r] =
                     IF exc[r] = "none"
                     THEN [kind |-> "returned", has_summary |-> TRUE,
                           summary |-> summary[r]]
                     ELSE [kind |-> exc[r], has_summary |-> FALSE,
                           summary |-> ZeroSummary]]
    /\ pc' = [pc EXCEPT ![r] = "idle"]
    /\ titles' = [titles EXCEPT ![r] = <<>>]
    /\ cur' = [cur EXCEPT ![r] = NoTitle]
    /\ man' = [man EXCEPT ![r] = ClosedManifest]
    /\ error' = [error EXCEPT ![r] = Null]
    /\ UNCHANGED <<disk, now, tmp, held, inst, ipc, iop, applied, crashes, calls,
                     request, output_format, resume, manifest_reset, summary,
                     exc, exported, runs, finished, attempted, queued>>

\* The same with the stub of _clear_api_caches_for_run.
DownloadFinally(r) ==
    /\ DoDownloadFinally(r)
    /\ UNCHANGED xvars


----------------------------------------------------------------------------
(* api.py: APILoaderMixin, the cached fetches of one loader                  *)

\* An identifier is passed as an int or as its decimal string (Union[str, int]).
IdForms == {"int", "str"}
Identifier(n, form) ==
    IF form = "int" THEN [kind |-> "int", int |-> n, str |-> ""]
    ELSE [kind |-> "str", int |-> 0, str |-> ToString(n)]

\* Variant: the key tells an int from a string.
TypedCacheKey(identifier) ==
    IF identifier.kind = "int" THEN ToString(identifier.int)
    ELSE "'" \o identifier.str \o "'"

\* _cache_key: str(identifier)
_cache_key(identifier) ==
    IF identifier.kind = "int" THEN ToString(identifier.int) ELSE identifier.str

\* The viewer and title-detail messages a Response can carry.  A field that
\* is not set reads as the default instance of its message type.  Of a
\* viewer the model keeps the ids, the number of pages and whether the final
\* page has a last_page.
DefaultViewer == [title_id |-> 0, chapter_id |-> 0, pages |-> 0, last_page |-> FALSE]
DefaultTitleDump == [title_id |-> 0, name |-> "", groups |-> 0, chapters |-> 0]

ViewerMessage(has_success, has_viewer, viewer) ==
    [parses |-> TRUE, success |-> has_success, manga_viewer |-> has_viewer,
     viewer |-> viewer]
TitleMessage(has_success, has_view, view) ==
    [parses |-> TRUE, success |-> has_success, title_detail_view |-> has_view,
     view |-> view]

\* Bytes that are no serialised Response: Response.FromString raises
\* DecodeError on them.
Garbled(message) == [message EXCEPT !.parses = FALSE]
FromStringRaises(content) == ~content.parses

\* The chapter ids fetched: one more than the largest small cache can hold.
ViewerIds == 1..(MaxCacheSize + 1)

\* What the server may answer for chapter n: its viewer, which for chapter 1
\* has one page or, asked again later, two; title 1 likewise gets renamed.
GoodViewers(n) ==
    {[title_id |-> TitleOf(n), chapter_id |-> n, pages |-> p, last_page |-> TRUE] :
        p \in IF n = 1 THEN {1, 2} ELSE {1}}
GoodTitleDumps(t) ==
    {[title_id |-> t, name |-> nm, groups |-> 1, chapters |-> 1] :
        nm \in IF t = 1 THEN {"name", "renamed"} ELSE {"name"}}

\* Answers that break the downstream invariants.
BadViewerContents(n) ==
    {ViewerMessage(FALSE, FALSE, DefaultViewer),
     ViewerMessage(TRUE, FALSE, DefaultViewer),
     ViewerMessage(TRUE, TRUE, [title_id |-> 0, chapter_id |-> 0, pages |-> 1,
                                last_page |-> TRUE]),
     ViewerMessage(TRUE, TRUE, [title_id |-> TitleOf(n), chapter_id |-> n,
                                pages |-> 0, last_page |-> FALSE]),
     ViewerMessage(TRUE, TRUE, [title_id |-> TitleOf(n), chapter_id |-> n,
                                pages |-> 1, last_page |-> FALSE])}
BadTitleContents(t) ==
    {TitleMessage(FALSE, FALSE, DefaultTitleDump),
     TitleMessage(TRUE, FALSE, DefaultTitleDump),
     TitleMessage(TRUE, TRUE,
                  [title_id |-> 0, name |-> "", groups |-> 1, chapters |-> 1]),
     TitleMessage(TRUE, TRUE,
                  [title_id |-> t, name |-> "name", groups |-> 0, chapters |-> 0]),
     TitleMessage(TRUE, TRUE,
                  [title_id |-> t, name |-> "name", groups |-> 1, chapters |-> 0])}

HttpStatuses == {200, 503}
ViewerResponses(n) ==
    {[status |-> 200, content |-> ViewerMessage(TRUE, TRUE, v)] : v \in GoodViewers(n)}
    \cup {[status |-> 503, content |-> ViewerMessage(FALSE, FALSE, DefaultViewer)]}
TitleResponses(t) ==
    {[status |-> 200, content |-> TitleMessage(TRUE, TRUE, v)] : v \in GoodTitleDumps(t)}
    \cup {[status |-> 503, content |-> TitleMessage(FALSE, FALSE, DefaultTitleDump)]}
BadViewerResponses(n) ==
    {[status |-> 200, content |-> c] :
        c \in BadViewerContents(n)
               \cup {Garbled(ViewerMessage(FALSE, FALSE, DefaultViewer))}}
BadTitleResponses(t) ==
    {[status |-> 200, content |-> c] :
        c \in BadTitleContents(t)
               \cup {Garbled(TitleMessage(FALSE, FALSE, DefaultTitleDump))}}

\* _parse_manga_viewer_response: parsed.success.manga_viewer
_parse_manga_viewer_response(content) ==
    IF content.success /\ content.manga_viewer THEN content.viewer
    ELSE DefaultViewer

\* _parse_title_detail_response: parsed.success.title_detail_view
_parse_title_detail_response(content) ==
    IF content.success /\ content.title_detail_view THEN content.view
    ELSE DefaultTitleDump

\* OrderedDict helpers: the keys, the entry of a key, the dict without a key.
CacheKeys(cache) == {cache[i].key : i \in DOMAIN cache}
CacheValue(cache, key) ==
    cache[CHOOSE i \in DOMAIN cache : cache[i].key = key].value
CachePop(cache, key) == SelectSeq(cache, LAMBDA e : e.key # key)
MoveToEnd(cache, key) ==
    Append(CachePop(cache, key), [key |-> key, value |-> CacheValue(cache, key)])

\* while len(cache) > max_size: cache.popitem(last=False)
RECURSIVE PopOldest(_, _)
PopOldest(cache, max_size) ==
    IF Len(cache) > max_size THEN PopOldest(Tail(cache), max_size) ELSE cache

\* Variant: a hit leaves the order of the entries as it is.
ViewerCacheGetKeepsOrder(cache, key) ==
    IF key \notin CacheKeys(cache)
    THEN [hit |-> FALSE, cache |-> cache, value |-> DefaultViewer]
    ELSE [hit |-> TRUE, cache |-> cache, value |-> CacheValue(cache, key)]

\* _viewer_cache_get: None on a miss; a hit moves the key to the end.
_viewer_cache_get(cache, key) ==
    IF key \notin CacheKeys(cache)
    THEN [hit |-> FALSE, cache |-> cache, value |-> DefaultViewer]
    ELSE [hit |-> TRUE, cache |-> MoveToEnd(cache, key),
          value |-> CacheValue(cache, key)]

\* _viewer_cache_set: store, move to the end, evict beyond the maximum.
_viewer_cache_set(cache, key, value, max_size) ==
    PopOldest(Append(CachePop(cache, key), [key |-> key, value |-> value]),
              max_size)

\* _title_cache_get
_title_cache_get(cache, key) ==
    IF key \notin CacheKeys(cache)
    THEN [hit |-> FALSE, cache |-> cache, value |-> DefaultTitleDump]
    ELSE [hit |-> TRUE, cache |-> MoveToEnd(cache, key),
          value |-> CacheValue(cache, key)]

\* Variant: the title cache is trimmed to the viewer cache's maximum.
TitleCacheSetSharedBound(cache, key, value, max_size) ==
    PopOldest(Append(CachePop(cache, key), [key |-> key, value |-> value]),
              viewer_max)

\* _title_cache_set
_title_cache_set(cache, key, value, max_size) ==
    PopOldest(Append(CachePop(cache, key), [key |-> key, value |-> value]),
              max_size)

\* Bookkeeping of the order of accesses, kept apart from the caches' order.
Touch(keys, key) == Append(SelectSeq(keys, LAMBDA k : k # key), key)
Forget(keys, gone) == SelectSeq(keys, LAMBDA k : k \notin gone)

NoFetch == [cache |-> "none", id |-> 0, nth |-> 0, got |-> FALSE,
            raised |-> "none", value |-> DefaultViewer]
Fetched(cache, n, got, raised, value) ==
    [cache |-> cache, id |-> n, nth |-> 1 - fetched.nth, got |-> got,
     raised |-> raised, value |-> value]

\* response.raise_for_status() raises HTTPError.
IsHttpError(status_code) == 400 <= status_code /\ status_code < 600

\* Variant: the answer is cached as a default viewer before it is checked.
ViewerAnsweredCachesFirst(n, chapter_cache_key, response) ==
    IF IsHttpError(response.status) \/ FromStringRaises(response.content)
    THEN /\ viewer_cache' = _viewer_cache_set(viewer_cache, chapter_cache_key,
                                              DefaultViewer, viewer_max)
         /\ fetched' = Fetched("viewer", n, TRUE,
                               IF IsHttpError(response.status) THEN "HTTPError"
                               ELSE "DecodeError", DefaultViewer)
         /\ accessed' = [accessed EXCEPT !.viewer = Touch(@, chapter_cache_key)]
         /\ unbroken' = [unbroken EXCEPT !.viewer = Touch(@, chapter_cache_key)]
    ELSE LET parsed_viewer == _parse_manga_viewer_response(response.content)
         IN /\ viewer_cache' = _viewer_cache_set(viewer_cache,
                                   chapter_cache_key, parsed_viewer, viewer_max)
            /\ fetched' = Fetched("viewer", n, TRUE, "none", parsed_viewer)
            /\ accessed' = [accessed EXCEPT
                              !.viewer = Touch(@, chapter_cache_key)]
            /\ unbroken' = [unbroken EXCEPT
                              !.viewer = Touch(@, chapter_cache_key)]

\* _load_pages after session.get has returned: raise_for_status, parse, cache.
ViewerAnswered(n, chapter_cache_key, response) ==
    IF IsHttpError(response.status)
    THEN /\ fetched' = Fetched("viewer", n, TRUE, "HTTPError", DefaultViewer)
         /\ UNCHANGED <<viewer_cache, accessed, unbroken>>
    ELSE IF FromStringRaises(response.content)
    THEN /\ fetched' = Fetched("viewer", n, TRUE, "DecodeError", DefaultViewer)
         /\ UNCHANGED <<viewer_cache, accessed, unbroken>>
    ELSE LET parsed_viewer == _parse_manga_viewer_response(response.content)
         IN /\ viewer_cache' = _viewer_cache_set(viewer_cache,
                                   chapter_cache_key, parsed_viewer, viewer_max)
            /\ fetched' = Fetched("viewer", n, TRUE, "none", parsed_viewer)
            /\ accessed' = [accessed EXCEPT
                              !.viewer = Touch(@, chapter_cache_key)]
            /\ unbroken' = [unbroken EXCEPT
                              !.viewer = Touch(@, chapter_cache_key)]

\* _load_pages returns the cached viewer.
ViewerCached(n, chapter_cache_key, cached) ==
    /\ viewer_cache' = cached.cache
    /\ fetched' = Fetched("viewer", n, FALSE, "none", cached.value)
    /\ accessed' = [accessed EXCEPT !.viewer = Touch(@, chapter_cache_key)]
    /\ unbroken' = [unbroken EXCEPT !.viewer = Touch(@, chapter_cache_key)]

\* _load_pages(chapter_id) on the loader: the cached viewer, or one GET whose
\* answer is checked for its status, parsed and cached.  The server's answer
\* is drawn when the GET is made; a faulty server may send a malformed one.
LoadPagesOnLoader(n, form, faulty) ==
    LET chapter_cache_key == _cache_key(Identifier(n, form))
        cached == _viewer_cache_get(viewer_cache, chapter_cache_key)
    IN  /\ IF cached.hit
           THEN ViewerCached(n, chapter_cache_key, cached)
           ELSE \E response \in ViewerResponses(n)
                       \cup (IF faulty THEN BadViewerResponses(n) ELSE {}) :
                   ViewerAnswered(n, chapter_cache_key, response)
        /\ UNCHANGED <<title_cache, viewer_max, title_max>>

\* _load_pages(chapter_id), called on its own.
_load_pages(n, form, faulty) ==
    /\ LoadPagesOnLoader(n, form, faulty)
    /\ UNCHANGED <<disk, now, mvars, ovars, lvars, pvars, evars, uvars>>

\* _get_title_details(title_id) on the loader, likewise on the title cache.
GetTitleDetailsOnLoader(t, form, faulty) ==
    LET title_cache_key == _cache_key(Identifier(t, form))
        cached == _title_cache_get(title_cache, title_cache_key)
    IN  /\ IF cached.hit
           THEN /\ title_cache' = cached.cache
                /\ fetched' = Fetched("title", t, FALSE, "none", cached.value)
                /\ accessed' = [accessed EXCEPT
                                  !.title = Touch(@, title_cache_key)]
                /\ unbroken' = [unbroken EXCEPT
                                  !.title = Touch(@, title_cache_key)]
           ELSE \E response \in TitleResponses(t)
                       \cup (IF faulty THEN BadTitleResponses(t) ELSE {}) :
                IF IsHttpError(response.status)
           THEN /\ fetched' = Fetched("title", t, TRUE, "HTTPError", DefaultTitleDump)
                /\ UNCHANGED <<title_cache, accessed, unbroken>>
           ELSE IF FromStringRaises(response.content)
           THEN /\ fetched' = Fetched("title", t, TRUE, "DecodeError", DefaultTitleDump)
                /\ UNCHANGED <<title_cache, accessed, unbroken>>
           ELSE LET parsed_title == _parse_title_detail_response(response.content)
                IN /\ title_cache' = _title_cache_set(title_cache,
                                         title_cache_key, parsed_title, title_max)
                   /\ fetched' = Fetched("title", t, TRUE, "none", parsed_title)
                   /\ accessed' = [accessed EXCEPT
                                     !.title = Touch(@, title_cache_key)]
                   /\ unbroken' = [unbroken EXCEPT
                                     !.title = Touch(@, title_cache_key)]
        /\ UNCHANGED <<viewer_cache, viewer_max, title_max>>

\* _get_title_details(title_id), called on its own.
_get_title_details(t, form, faulty) ==
    /\ GetTitleDetailsOnLoader(t, form, faulty)
    /\ UNCHANGED <<disk, now, mvars, ovars, lvars, pvars, evars, uvars>>

\* _clear_api_caches_for_run on the loader: both caches emptied.
ClearRunOnLoader ==
    /\ viewer_cache' = <<>>
    /\ title_cache' = <<>>
    /\ accessed' = [viewer |-> <<>>, title |-> <<>>]
    /\ unbroken' = [viewer |-> <<>>, title |-> <<>>]
    /\ UNCHANGED <<viewer_max, title_max, fetched>>

\* _clear_api_caches_for_run, called on its own on caches that hold something.
_clear_api_caches_for_run ==
    /\ viewer_cache # <<>> \/ title_cache # <<>>
    /\ ClearRunOnLoader
    /\ UNCHANGED <<disk, now, mvars, ovars, lvars, pvars, evars, uvars>>

\* Variant: the title-scoped clear empties the viewer cache.
ClearTitleAndEveryViewer(title_id, chapter_ids) ==
    /\ title_cache' = CachePop(title_cache, _cache_key(Identifier(title_id, "int")))
    /\ viewer_cache' = <<>>
    /\ accessed' = [viewer |-> <<>>,
                    title |-> Forget(accessed.title,
                                     {_cache_key(Identifier(title_id, "int"))})]
    /\ unbroken' = [viewer |-> <<>>, title |-> <<>>]
    /\ UNCHANGED <<viewer_max, title_max, fetched>>

\* _clear_api_caches_for_title on the loader: the title's entry and, when
\* chapter ids are given, their viewer entries are dropped.
ClearTitleOnLoader(title_id, chapter_ids) ==
    LET title_key == _cache_key(Identifier(title_id, "int"))
        chapter_keys == {_cache_key(Identifier(c, "int")) : c \in chapter_ids}
    IN  /\ title_cache' = CachePop(title_cache, title_key)
        /\ viewer_cache' = SelectSeq(viewer_cache,
                                     LAMBDA e : e.key \notin chapter_keys)
        /\ accessed' = [viewer |-> Forget(accessed.viewer, chapter_keys),
                        title |-> Forget(accessed.title, {title_key})]
        /\ unbroken' = [viewer |-> IF chapter_ids = {} THEN unbroken.viewer
                                   ELSE <<>>,
                        title |-> <<>>]
        /\ UNCHANGED <<viewer_max, title_max, fetched>>

\* _clear_api_caches_for_title, called on its own.
_clear_api_caches_for_title(title_id, chapter_ids) ==
    /\ ClearTitleOnLoader(title_id, chapter_ids)
    /\ UNCHANGED <<disk, now, mvars, ovars, lvars, pvars, evars, uvars>>

-----------------------------------------------------------------------------
(* loader.py: the orchestrator of downloader.py on a loader whose API hooks  *)
(* are those of api.py.  One loader makes the download() calls of run 1; a   *)
(* request names titles, and normalization asks for the details of each.     *)

\* Variant: a viewer with pages is taken to have its last page.
HasPages(viewer) == viewer.pages > 0

\* _has_last_page(viewer): pages, a final page, and a last_page on it.
_has_last_page(viewer) == viewer.pages > 0 /\ viewer.last_page

\* _process_chapter after _load_pages: the fetch raised, the viewer has no
\* last page, or the chapter goes on.
ViewerOutcome(f) ==
    IF f.raised # "none" THEN "error"
    ELSE IF _has_last_page(f.value) THEN "ok" ELSE "no_last_page"

\* The title ids of the request and the chapter ids the normalized mapping
\* holds for one of them.
RequestedTitles == {t \in Titles : request \cap ChaptersOf(t) # {}}
RequestedChapters(title_id) == request \cap ChaptersOf(title_id)

TitleIsCached(t) ==
    _title_cache_get(title_cache, _cache_key(Identifier(t, "int"))).hit

\* download(): summary = ...; self._clear_api_caches_for_run().
RuntimeStartDownload(res, rst) ==
    /\ DoStartDownload(1, res, rst)
    /\ ClearRunOnLoader
    /\ UNCHANGED <<lvars, pvars, evars, uvars>>

\* _normalize_ids: one _get_title_details of the loop over the requested
\* titles.  A raising fetch ends normalization; the last one returns the map.
RuntimeNormalize ==
    /\ pc[1] = "normalize"
    /\ \E title_id \in {t \in RequestedTitles : ~TitleIsCached(t)} :
         /\ GetTitleDetailsOnLoader(title_id, "int", FALSE)
         /\ IF fetched'.raised # "none"
            THEN DoNormalize(1, FALSE)
            ELSE IF \A t \in RequestedTitles \ {title_id} : TitleIsCached(t)
                 THEN DoNormalize(1, TRUE)
                 ELSE UNCHANGED <<disk, now, mvars, ovars>>
    /\ UNCHANGED <<lvars, pvars, evars, uvars>>

\* _process_title: title_dump = self._get_title_details(title_id).
RuntimeGetTitleDetails ==
    /\ pc[1] = "title"
    /\ titles[1] # <<>>
    /\ GetTitleDetailsOnLoader(Head(titles[1]), "int", FALSE)
    /\ DoGetTitleDetails(1, fetched'.raised = "none")
    /\ UNCHANGED <<lvars, pvars, evars, uvars>>

\* _process_chapter: viewer = self._load_pages(chapter_id); _has_last_page.
\* The server may answer with a viewer that has no last page.
RuntimeLoadPages ==
    /\ pc[1] = "load_pages"
    /\ LoadPagesOnLoader(cur[1].chapter, "int", TRUE)
    /\ DoLoadPages(1, ViewerOutcome(fetched'))
    /\ UNCHANGED <<lvars, pvars, evars, uvars>>

\* Variant: the finally block of _process_title leaves the caches alone.
RuntimeProcessTitleFinallyKeepsCaches ==
    /\ DoProcessTitleFinally(1)
    /\ UNCHANGED <<cvars, lvars, pvars, evars, uvars>>

\* _process_title: finally: flush;
\* self._clear_api_caches_for_title(title_id, chapter_ids).
RuntimeProcessTitleFinally ==
    /\ DoProcessTitleFinally(1)
    /\ ClearTitleOnLoader(cur[1].title, RequestedChapters(cur[1].title))
    /\ UNCHANGED <<lvars, pvars, evars, uvars>>

\* Variant: the finally block of download() leaves the caches alone.
RuntimeDownloadFinallyKeepsCaches ==
    /\ DoDownloadFinally(1)
    /\ UNCHANGED <<cvars, lvars, pvars, evars, uvars>>

\* download(): finally: self._clear_api_caches_for_run().
RuntimeDownloadFinally ==
    /\ DoDownloadFinally(1)
    /\ ClearRunOnLoader
    /\ UNCHANGED <<lvars, pvars, evars, uvars>>

\* Between two download() calls the loader is asked for a chapter viewer.
LoadPagesBetweenRuns(n) ==
    /\ pc[1] = "idle"
    /\ runs[1] < MaxRuns
    /\ viewer_cache = <<>>
    /\ _load_pages(n, "int", FALSE)

----------------------------------------------------------------------------
(* init.py: the retry policy of the session, and a GET of _load_pages made   *)
(* through it, one step per request sent                                    *)

\* MangaLoader(..., retries: int = 3)
DefaultRetries == 3

\* Retry(total=retries, status=retries, ..., raise_on_status=False)
status_forcelist == {429, 500, 502, 503, 504}
allowed_methods == {"GET"}
raise_on_status == FALSE
\* respect_retry_after_header is left at its default, True: an answer that
\* carries a Retry-After header and one of these statuses is retried too.
respect_retry_after_header == TRUE
RETRY_AFTER_STATUS_CODES == {413, 429, 503}

\* The policy's is_retry: whether the answer is to be retried.
is_retry(method, status_code, has_retry_after, total) ==
    /\ method \in allowed_methods
    /\ \/ status_code \in status_forcelist
       \/ /\ total # 0
          /\ respect_retry_after_header
          /\ has_retry_after
          /\ status_code \in RETRY_AFTER_STATUS_CODES

NoRequest == [active |-> FALSE, id |-> 0, total |-> 0, sent |-> 0,
              status |-> 0, retry_after |-> FALSE]

\* What the server puts in an answer of the given status.
ViewerContents(n, status_code) ==
    IF status_code = 200
    THEN {ViewerMessage(TRUE, TRUE, v) : v \in GoodViewers(n)}
    ELSE {ViewerMessage(FALSE, FALSE, DefaultViewer)}

\* _load_pages up to session.get: the cached viewer is returned, or the GET
\* starts with the retries of the policy.
SessionGet(n) ==
    /\ ~http.active
    /\ LET chapter_cache_key == _cache_key(Identifier(n, "int"))
           cached == _viewer_cache_get(viewer_cache, chapter_cache_key)
       IN IF cached.hit
          THEN /\ ViewerCached(n, chapter_cache_key, cached)
               /\ http' = NoRequest
          ELSE /\ http' = [NoRequest EXCEPT !.active = TRUE, !.id = n,
                                            !.total = retries]
               /\ UNCHANGED <<viewer_cache, accessed, unbroken, fetched>>
    /\ UNCHANGED <<title_cache, viewer_max, title_max, retries>>
    /\ UNCHANGED <<disk, now, mvars, ovars, lvars, pvars, evars, dvars, nvars, fvars>>

\* One request of the GET and its answer.  An answer the policy retries
\* takes one retry away; with none left the answer is handed back as it is
\* (raise_on_status=False), and so is every other answer.  _load_pages goes
\* on with the answer handed back.
Exchange(status_code, has_retry_after) ==
    /\ http.active
    /\ LET answered == [http EXCEPT !.sent = @ + 1, !.status = status_code,
                                    !.retry_after = has_retry_after]
           total == http.total - 1
       IN IF is_retry("GET", status_code, has_retry_after, http.total)
             /\ ~(total < 0)
          THEN /\ http' = [answered EXCEPT !.total = total]
               /\ UNCHANGED <<viewer_cache, accessed, unbroken, fetched>>
          ELSE /\ http' = [answered EXCEPT !.active = FALSE]
               /\ \E content \in ViewerContents(http.id, status_code) :
                     ViewerAnswered(http.id,
                                    _cache_key(Identifier(http.id, "int")),
                                    [status |-> status_code, content |-> content])
    /\ UNCHANGED <<title_cache, viewer_max, title_max, retries>>
    /\ UNCHANGED <<disk, now, mvars, ovars, lvars, pvars, evars, dvars, nvars, fvars>>

----------------------------------------------------------------------------
(* services.py: PageExportService *)

\* constants.py: PageType
SINGLE == 0
LEFT == 1
RIGHT == 2
DOUBLE == 3
PageTypes == {SINGLE, LEFT, RIGHT, DOUBLE}

\* An output_index: the int n, or range(start, stop).
Scalar(n) == [is_range |-> FALSE, start |-> n, stop |-> n]
Range(start, stop) == [is_range |-> TRUE, start |-> start, stop |-> stop]

\* Variant: the paired index is computed and the counter left alone.
DoublePageIndexUnpaired(page_index, counter) ==
    [index |-> Range(page_index, page_index + 1), counter |-> counter]

\* _double_page_index: paired_page_index = next(page_counter); counter is
\* the value count() returns next, and the result carries the one after it.
_double_page_index(page_index, counter) ==
    [index |-> Range(page_index, counter), counter |-> counter + 1]

\* A call made for the page at position page of the chapter: skip_image and
\* add_image carry the output index, skip_image has a return value.
PageCall(call, page, index, returned) ==
    [call |-> call, page |-> page, index |-> index, returned |-> returned]

\* Variant: the image is fetched before the exporter is asked.
ExportPageFetchesFirst(skip) ==
    /\ ~exhausted
    /\ page_pos < Len(pages)
    /\ LET page_index == page_counter
           page == pages[page_pos + 1]
           out == IF page = DOUBLE
                  THEN _double_page_index(page_index, page_counter + 1)
                  ELSE [index |-> Scalar(page_index), counter |-> page_counter + 1]
       IN /\ page_counter' = out.counter
          /\ output_indices' = Append(output_indices, out.index)
          /\ added' = IF skip THEN added ELSE Append(added, out.index)
          /\ page_calls' = page_calls \o
                <<PageCall("fetch_page_image", page_pos + 1, out.index, FALSE),
                  PageCall("skip_image", page_pos + 1, out.index, skip)>> \o
                (IF skip THEN <<>>
                 ELSE <<PageCall("add_image", page_pos + 1, out.index, FALSE)>>)
    /\ page_pos' = page_pos + 1
    /\ UNCHANGED <<pages, exhausted>>
    /\ UNCHANGED <<disk, now, mvars, ovars, cvars, lvars, pvars, uvars>>

\* export_pages, one turn of the loop: zip() takes page_index from the
\* counter and the page from the progress bar; the exporter is asked whether
\* to skip, and if not the image is fetched and added.
ExportPage(skip) ==
    /\ ~exhausted
    /\ page_pos < Len(pages)
    /\ LET page_index == page_counter
           page == pages[page_pos + 1]
           out == IF page = DOUBLE
                  THEN _double_page_index(page_index, page_counter + 1)
                  ELSE [index |-> Scalar(page_index), counter |-> page_counter + 1]
       IN /\ page_counter' = out.counter
          /\ output_indices' = Append(output_indices, out.index)
          /\ added' = IF skip THEN added ELSE Append(added, out.index)
          /\ page_calls' = page_calls \o
                <<PageCall("skip_image", page_pos + 1, out.index, skip)>> \o
                (IF skip THEN <<>>
                 ELSE <<PageCall("fetch_page_image", page_pos + 1, out.index, FALSE),
                        PageCall("add_image", page_pos + 1, out.index, FALSE)>>)
    /\ page_pos' = page_pos + 1
    /\ UNCHANGED <<pages, exhausted>>
    /\ UNCHANGED <<disk, now, mvars, ovars, cvars, lvars, pvars, uvars>>

\* export_pages, the end of the loop: zip() takes one more value from the
\* counter and finds no page left.
ExhaustPages ==
    /\ ~exhausted
    /\ page_pos = Len(pages)
    /\ page_counter' = page_counter + 1
    /\ exhausted' = TRUE
    /\ UNCHANGED <<pages, page_pos, output_indices, added, page_calls>>
    /\ UNCHANGED <<disk, now, mvars, ovars, cvars, lvars, pvars, uvars>>

----------------------------------------------------------------------------
(* normalization.py: NormalizationMixin._normalize_ids *)

\* ChapterMetadata(ch.chapter_id, ch.name)
ChapterMetadataOf(c) == [id |-> c, name |-> catalog.chapters[c].name]

\* The chapters of a title as the server lists them, in viewer.chapters and
\* in the chapter groups of the title details alike.
ChapterList(t) ==
    LET ids == SortedSeq(ChaptersOf(t))
    IN [k \in DOMAIN ids |-> ChapterMetadataOf(ids[k])]

\* dict helpers on <<[title_id, ...], ...>>
HasKey(dict, title_id) == \E k \in DOMAIN dict : dict[k].title_id = title_id
KeyIndex(dict, title_id) == CHOOSE k \in DOMAIN dict : dict[k].title_id = title_id

\* manga_mapping.setdefault(title_id, []).extend(items)
SetDefaultExtend(dict, title_id, items) ==
    IF HasKey(dict, title_id)
    THEN [dict EXCEPT ![KeyIndex(dict, title_id)].chapters = @ \o items]
    ELSE Append(dict, [title_id |-> title_id, chapters |-> items])

\* manga_mapping[title_id] = items
SetItem(dict, title_id, items) ==
    IF HasKey(dict, title_id)
    THEN [dict EXCEPT ![KeyIndex(dict, title_id)].chapters = items]
    ELSE Append(dict, [title_id |-> title_id, chapters |-> items])

\* direct_chapter_ids_by_title.get(title_id, set())
DirectIds(direct, title_id) ==
    IF title_id \in DOMAIN direct THEN direct[title_id] ELSE {}

\* chapters[-1:]
LastOnly(chapters) ==
    IF chapters = <<>> THEN <<>> ELSE <<chapters[Len(chapters)]>>

\* Variant: the explicitly requested ids go through the filters as well.
ResolvedIdsFilteredOnly(title_id, chapters, args, direct) ==
    LET number(ch) == chapter_name_to_int(ch.name)
        filtered_chapters ==
            IF args.last_chapter THEN LastOnly(chapters)
            ELSE IF args.chapter_numbers # {}
            THEN SelectSeq(chapters, LAMBDA ch :
                     /\ ~number(ch).is_none
                     /\ number(ch).value \in args.chapter_numbers
                     /\ args.min_chapter <= number(ch).value
                     /\ number(ch).value <= args.max_chapter)
            ELSE SelectSeq(chapters, LAMBDA ch :
                     LET n == IF number(ch).is_none THEN 0 ELSE number(ch).value
                     IN args.min_chapter <= n /\ n <= args.max_chapter)
    IN {filtered_chapters[k].id : k \in DOMAIN filtered_chapters}

\* The body of the last loop: the ids one title is mapped to.
ResolvedIds(title_id, chapters, args, direct) ==
    LET number(ch) == chapter_name_to_int(ch.name)
        filtered_chapters ==
            IF args.last_chapter THEN LastOnly(chapters)
            ELSE IF args.chapter_numbers # {}
            THEN SelectSeq(chapters, LAMBDA ch :
                     /\ ~number(ch).is_none
                     /\ number(ch).value \in args.chapter_numbers
                     /\ args.min_chapter <= number(ch).value
                     /\ number(ch).value <= args.max_chapter)
            ELSE SelectSeq(chapters, LAMBDA ch :
                     LET n == IF number(ch).is_none THEN 0 ELSE number(ch).value
                     IN args.min_chapter <= n /\ n <= args.max_chapter)
    IN {filtered_chapters[k].id : k \in DOMAIN filtered_chapters}
         \cup DirectIds(direct, title_id)

\* Lines 47-57: the two usage checks and the locals.
NormalizeEnter ==
    /\ norm_pc = "enter"
    /\ IF norm_args.title_ids = {} /\ norm_args.chapter_numbers = {}
          /\ norm_args.chapter_ids = {}
       THEN /\ norm_raised' = "ValueError"
            /\ norm_pc' = "raised"
            /\ UNCHANGED <<remaining_title_ids, to_visit>>
       ELSE IF norm_args.chapter_numbers # {} /\ norm_args.title_ids = {}
               /\ norm_args.chapter_ids = {}
       THEN /\ norm_raised' = "ValueError"
            /\ norm_pc' = "raised"
            /\ UNCHANGED <<remaining_title_ids, to_visit>>
       ELSE /\ remaining_title_ids' = norm_args.title_ids
            /\ to_visit' = norm_args.chapter_ids
            /\ norm_pc' = "chapter_ids"
            /\ UNCHANGED norm_raised
    /\ UNCHANGED <<norm_args, direct_chapter_ids_by_title, manga_mapping,
                   normalized_mapping>>
    /\ UNCHANGED <<disk, now, mvars, ovars, cvars, lvars, pvars, evars, dvars,
                   tvars, fvars>>

\* Lines 59-71: one turn of "for chapter_id in provided_chapter_ids"; a set
\* is iterated in no particular order.
NormalizeChapterId(chapter_id) ==
    /\ norm_pc = "chapter_ids"
    /\ chapter_id \in to_visit
    /\ LET current_title_id == TitleOf(chapter_id)
       IN /\ direct_chapter_ids_by_title' =
                [t \in DOMAIN direct_chapter_ids_by_title \cup {current_title_id} |->
                    IF t = current_title_id
                    THEN DirectIds(direct_chapter_ids_by_title, t) \cup {chapter_id}
                    ELSE direct_chapter_ids_by_title[t]]
          /\ IF current_title_id \in remaining_title_ids
             THEN /\ remaining_title_ids' = remaining_title_ids \ {current_title_id}
                  /\ manga_mapping' = SetDefaultExtend(manga_mapping,
                         current_title_id, ChapterList(current_title_id))
             ELSE /\ manga_mapping' = SetDefaultExtend(manga_mapping,
                         current_title_id, <<ChapterMetadataOf(chapter_id)>>)
                  /\ UNCHANGED remaining_title_ids
    /\ to_visit' = to_visit \ {chapter_id}
    /\ UNCHANGED <<norm_args, norm_pc, normalized_mapping, norm_raised>>
    /\ UNCHANGED <<disk, now, mvars, ovars, cvars, lvars, pvars, evars, dvars,
                   tvars, fvars>>

\* Lines 73-75: titles_requiring_full_details.
NormalizeCollectTitles ==
    /\ norm_pc = "chapter_ids"
    /\ to_visit = {}
    /\ to_visit' = remaining_title_ids \cup
           (IF norm_args.chapter_numbers # {}
            THEN {manga_mapping[k].title_id : k \in DOMAIN manga_mapping}
            ELSE {})
    /\ norm_pc' = "titles"
    /\ UNCHANGED <<norm_args, remaining_title_ids, direct_chapter_ids_by_title,
                   manga_mapping, normalized_mapping, norm_raised>>
    /\ UNCHANGED <<disk, now, mvars, ovars, cvars, lvars, pvars, evars, dvars,
                   tvars, fvars>>

\* Lines 77-85: one turn of "for title_id in titles_requiring_full_details".
NormalizeTitleId(title_id) ==
    /\ norm_pc = "titles"
    /\ title_id \in to_visit
    /\ manga_mapping' = SetItem(manga_mapping, title_id, ChapterList(title_id))
    /\ to_visit' = to_visit \ {title_id}
    /\ UNCHANGED <<norm_args, norm_pc, remaining_title_ids,
                   direct_chapter_ids_by_title, normalized_mapping, norm_raised>>
    /\ UNCHANGED <<disk, now, mvars, ovars, cvars, lvars, pvars, evars, dvars,
                   tvars, fvars>>

\* Lines 87-107: the last loop and the return.
NormalizeResolve ==
    /\ norm_pc = "titles"
    /\ to_visit = {}
    /\ normalized_mapping' =
          [k \in DOMAIN manga_mapping |->
              [title_id |-> manga_mapping[k].title_id,
               ids |-> ResolvedIds(manga_mapping[k].title_id,
                                   manga_mapping[k].chapters, norm_args,
                                   direct_chapter_ids_by_title)]]
    /\ norm_pc' = "returned"
    /\ UNCHANGED <<norm_args, remaining_title_ids, direct_chapter_ids_by_title,
                   manga_mapping, to_visit, norm_raised>>
    /\ UNCHANGED <<disk, now, mvars, ovars, cvars, lvars, pvars, evars, dvars,
                   tvars, fvars>>

----------------------------------------------------------------------------
(* decryption.py *)

Bytes == 0..255

RECURSIVE BitXor(_, _)
\* a ^ b on ints
BitXor(a, b) ==
    IF a = 0 THEN b
    ELSE IF b = 0 THEN a
    ELSE ((a + b) % 2) + 2 * BitXor(a \div 2, b \div 2)

\* Variant: every byte is combined with the first byte of the key.
XorDecryptFirstKeyByte(bytearray, key_bytes) ==
    [index \in 1..Len(bytearray) |-> BitXor(bytearray[index], key_bytes[1])]

\* _xor_decrypt: data[index] ^= key[index % key_length], index from 0.
_xor_decrypt(bytearray, key_bytes) ==
    LET key_length == Len(key_bytes)
    IN [index \in 1..Len(bytearray) |->
           BitXor(bytearray[index], key_bytes[((index - 1) % key_length) + 1])]

\* One call _xor_decrypt(data, xor_key).  With an empty key the first
\* "index % key_length" raises ZeroDivisionError before any byte is changed;
\* with no data the loop body never runs.
XorDecrypt ==
    /\ decrypts < MaxDecrypts
    /\ xor_raised = "none"
    /\ IF Len(xor_key) = 0 /\ Len(data) > 0
       THEN /\ xor_raised' = "ZeroDivisionError"
            /\ UNCHANGED <<data, decrypts>>
       ELSE /\ data' = (IF Len(data) = 0 THEN data ELSE _xor_decrypt(data, xor_key))
            /\ decrypts' = decrypts + 1
            /\ UNCHANGED xor_raised
    /\ UNCHANGED <<xor_key, ciphertext>>
    /\ UNCHANGED <<disk, now, mvars, ovars, cvars, lvars, pvars, evars, nvars,
                   tvars, fvars>>

----------------------------------------------------------------------------
(* Specifications *)

\* Chapter ids and arguments the manifest calls are made with: two chapters
\* where instances merge each other's entries (SpecAutosave), one chapter where
\* every operation, crashes and restarts are explored (SpecManifest).
MarkChapters == {1, 2}
MarkArgs(kind) ==
    CASE kind = "mark_started" -> {"pdf"}
      [] kind = "mark_completed" -> {"path"}
      [] kind = "mark_failed" -> {"boom"}

InitShared ==
    /\ disk = [t \in Titles |-> NoFile]
    /\ tmp = [i \in Inst |-> NoFile]
    /\ held = {}
    /\ now = 0
    /\ ipc = [i \in Inst |-> "ready"]
    /\ iop = [i \in Inst |-> NoOp]
    /\ applied = [c \in Chapters |-> "none"]
    /\ crashes = 0
    /\ calls = 0
    /\ resume = [r \in Runs |-> FALSE]
    /\ manifest_reset = [r \in Runs |-> FALSE]
    /\ summary = [r \in Runs |-> ZeroSummary]
    /\ titles = [r \in Runs |-> <<>>]
    /\ cur = [r \in Runs |-> NoTitle]
    /\ man = [r \in Runs |-> ClosedManifest]
    /\ exc = [r \in Runs |-> "none"]
    /\ error = [r \in Runs |-> Null]
    /\ outcome = [r \in Runs |-> NoOutcome]
    /\ exported = {}
    /\ finished = [r \in Runs |-> {}]
    /\ attempted = [r \in Runs |-> {}]
    /\ queued = [r \in Runs |-> {}]

\* A loader whose caches were never used.
InitLoader(vmax, tmax) ==
    /\ viewer_cache = <<>>
    /\ title_cache = <<>>
    /\ viewer_max = vmax
    /\ title_max = tmax
    /\ accessed = [viewer |-> <<>>, title |-> <<>>]
    /\ unbroken = [viewer |-> <<>>, title |-> <<>>]
    /\ fetched = NoFetch

NoOrigin == [shape |-> "none", raw |-> NotAJsonDict]

\* No file was there at the start and no load has raised.
InitLoads ==
    /\ raises = [i \in Inst |-> "none"]
    /\ origin = NoOrigin

\* A catalog of plainly named titles and numbered chapters.
DefaultTitle(t) == [name |-> <<"t", "i", "t", "l", "e", " ">> \o Str(t),
                    language |-> ENGLISH]
DefaultChapter(c) == [name |-> <<"#">> \o Str(c),
                      sub_title |-> <<"p", "a", "r", "t", " ">> \o Str(c)]

InitNames ==
    /\ catalog = [titles |-> [t \in Titles |-> DefaultTitle(t)],
                  chapters |-> [c \in Chapters |-> DefaultChapter(c)]]
    /\ add_chapter_title = FALSE

\* export_pages has not been called.
InitNoPages ==
    /\ pages = <<>>
    /\ page_counter = 0
    /\ page_pos = 0
    /\ output_indices = <<>>
    /\ added = <<>>
    /\ exhausted = TRUE
    /\ page_calls = <<>>

\* _xor_decrypt has not been called.
InitNoData ==
    /\ data = <<>>
    /\ xor_key = <<>>
    /\ ciphertext = <<>>
    /\ decrypts = 0
    /\ xor_raised = "none"

\* _normalize_ids has not been called.
NoArgs == [title_ids |-> {}, chapter_numbers |-> {}, chapter_ids |-> {},
           min_chapter |-> 0, max_chapter |-> 0, last_chapter |-> FALSE]
InitNormalizeLocals ==
    /\ remaining_title_ids = {}
    /\ direct_chapter_ids_by_title = [t \in {} |-> {}]
    /\ manga_mapping = <<>>
    /\ to_visit = {}
    /\ normalized_mapping = <<>>
    /\ norm_raised = "none"
InitNoNormalize ==
    /\ norm_args = NoArgs
    /\ norm_pc = "off"
    /\ InitNormalizeLocals

\* No GET is in progress.
InitNoRequest ==
    /\ retries = DefaultRetries
    /\ http = NoRequest

\* The planner is not called on its own.
NoPlanArgs ==
    [chapter_data |-> <<>>, title_dump |-> {}, existing_files |-> {},
     requested_chapter_ids |-> {}]
InitNoFilter ==
    /\ plan_args = NoPlanArgs
    /\ plan_pc = "off"
    /\ planned_ids = <<>>

\* None of the helpers is in use.
InitNoCalls ==
    /\ InitNoData
    /\ InitNoNormalize
    /\ InitNoRequest
    /\ InitNoFilter

InitX ==
    /\ InitLoader(_viewer_cache_max_size, _title_cache_max_size)
    /\ InitLoads
    /\ InitNames
    /\ InitNoPages
    /\ InitNoCalls

\* Manifest instances constructed in an empty title directory; which of the
\* two processes is which does not matter.
InitManifest ==
    /\ InitShared
    /\ InitX
    /\ inst \in [Inst -> {[chapters |-> EmptyChapters, dirty |-> FALSE,
                           autosave |-> a] : a \in BOOLEAN}]
    /\ inst[1].autosave => inst[2].autosave
    /\ pc = [r \in Runs |-> "off"]
    /\ runs = [r \in Runs |-> 0]
    /\ request = Chapters
    /\ output_format = "pdf"

InitAutosave ==
    /\ InitManifest
    /\ \A i \in Inst : inst[i].autosave

InitOrchestrators(active) ==
    /\ InitShared
    /\ InitX
    /\ runs = [r \in Runs |-> 0]
    /\ inst = [i \in Inst |-> [chapters |-> EmptyChapters, dirty |-> FALSE,
                               autosave |-> FALSE]]
    /\ pc = [r \in Runs |-> IF r \in active THEN "idle" ELSE "off"]
    /\ request \in (SUBSET Chapters) \ {{}}
    /\ output_format \in {"raw", "pdf"}

Init == InitOrchestrators({1})

\* Two processes, each about to make one download() call with resume on for
\* the whole catalog, raw output, into the same destination.
InitTwoRuns ==
    /\ InitShared
    /\ InitX
    /\ inst = [i \in Inst |-> [chapters |-> EmptyChapters, dirty |-> FALSE,
                               autosave |-> FALSE]]
    /\ pc = [r \in Runs |-> "idle"]
    /\ runs = [r \in Runs |-> MaxRuns - 1]
    /\ request = Chapters
    /\ output_format = "raw"

\* No download() in progress and no manifest call.
InitOff ==
    /\ InitShared
    /\ inst = [i \in Inst |-> [chapters |-> EmptyChapters, dirty |-> FALSE,
                               autosave |-> FALSE]]
    /\ pc = [r \in Runs |-> "off"]
    /\ runs = [r \in Runs |-> 0]
    /\ request = Chapters
    /\ output_format = "pdf"

\* Names a server may give title 1 and its first two chapters.
TitleNames ==
    {<<"o", "x">>,
     <<"D", "r", ".", " ", "S", "T", "O", "N", "E">>,
     <<"_", "a", "x", "e", "!">>}
ChapterNames ==
    {<<"#", "1">>,
     <<"#", "1", "0", "0", "0">>,
     <<"#", "1", ".", "5">>,
     <<"e", "x">>,
     <<"O", "n", "e", "-", "S", "h", "o", "t">>}
NextChapterNames == {<<"#", "2">>, <<"#", "e", "x">>}
SubTitles ==
    {<<>>,
     <<"S", "t", "o", "n", "e", " ", "W", "o", "r", "l", "d", "!">>,
     <<"o", "n", "e", " ", "s", "h", "o", "t">>}

\* Process 1 is about to call download() for the whole catalog without
\* resume, with one archive or document per chapter.
InitPlan ==
    /\ InitShared
    /\ InitLoader(_viewer_cache_max_size, _title_cache_max_size)
    /\ InitLoads
    /\ InitNoPages
    /\ InitNoCalls
    /\ \E name \in TitleNames, language \in {ENGLISH, SPANISH},
          first \in ChapterNames, following \in NextChapterNames,
          sub_title \in SubTitles :
         catalog =
           [titles |-> [t \in Titles |->
               IF t = 1 THEN [name |-> name, language |-> language]
               ELSE DefaultTitle(t)],
            chapters |-> [c \in Chapters |->
               IF c = 1 THEN [name |-> first, sub_title |-> sub_title]
               ELSE IF c = 2 /\ TitleOf(c) = 1
                    THEN [DefaultChapter(c) EXCEPT !.name = following]
               ELSE DefaultChapter(c)]]
    /\ add_chapter_title \in BOOLEAN
    /\ inst = [i \in Inst |-> [chapters |-> EmptyChapters, dirty |-> FALSE,
                               autosave |-> FALSE]]
    /\ pc = [r \in Runs |-> IF r = 1 THEN "idle" ELSE "off"]
    /\ runs = [r \in Runs |-> 0]
    /\ request = Chapters
    /\ output_format \in {"cbz", "pdf"}

\* export_pages is called with the pages of some chapter.
InitPages ==
    /\ InitOff
    /\ InitLoads
    /\ InitLoader(_viewer_cache_max_size, _title_cache_max_size)
    /\ InitNames
    /\ pages \in UNION {[1..n -> PageTypes] : n \in 0..MaxPages}
    /\ page_counter = 0
    /\ page_pos = 0
    /\ output_indices = <<>>
    /\ added = <<>>
    /\ exhausted = FALSE
    /\ page_calls = <<>>
    /\ InitNoCalls

\* Byte values the data and the key are made of.
ByteSamples == {0, 15, 65, 255}
BytesUpTo(n) == UNION {[1..k -> ByteSamples] : k \in 0..n}

\* A bytearray and a key, before the first call.
InitXor ==
    /\ InitOff
    /\ InitLoads
    /\ InitLoader(_viewer_cache_max_size, _title_cache_max_size)
    /\ InitNames
    /\ InitNoPages
    /\ data \in BytesUpTo(MaxData)
    /\ xor_key \in BytesUpTo(MaxKey)
    /\ ciphertext = data
    /\ decrypts = 0
    /\ xor_raised = "none"
    /\ InitNoNormalize
    /\ InitNoRequest
    /\ InitNoFilter

\* domain/requests.py: the max_chapter of a request that names no end.
MAX_CHAPTER_ID == 2147483647

\* A call of _normalize_ids on the catalog; in some catalogs the second
\* chapter is an extra without a number.
InitNormalize ==
    /\ InitOff
    /\ InitLoads
    /\ InitLoader(_viewer_cache_max_size, _title_cache_max_size)
    /\ InitNoPages
    /\ InitNoData
    /\ add_chapter_title = FALSE
    /\ \E name \in {DefaultChapter(2).name, <<"e", "x">>} :
          catalog = [titles |-> [t \in Titles |-> DefaultTitle(t)],
                     chapters |-> [c \in Chapters |->
                        IF c = 2 THEN [DefaultChapter(c) EXCEPT !.name = name]
                        ELSE DefaultChapter(c)]]
    /\ norm_args \in [title_ids : SUBSET Titles,
                       chapter_numbers : {{}, {2}},
                       chapter_ids : SUBSET Chapters,
                       min_chapter : {0, 2},
                       max_chapter : {1, MAX_CHAPTER_ID},
                       last_chapter : BOOLEAN]
    /\ norm_pc = "enter"
    /\ InitNormalizeLocals
    /\ InitNoRequest
    /\ InitNoFilter

\* The statuses a server answers with.
StatusSamples == {200, 404, 413, 429, 500, 502, 503, 504}

\* A loader constructed with no, one or the default number of retries.
InitRetry ==
    /\ InitOff
    /\ InitLoads
    /\ InitLoader(_viewer_cache_max_size, _title_cache_max_size)
    /\ InitNames
    /\ InitNoPages
    /\ InitNoData
    /\ InitNoNormalize
    /\ retries \in {0, 1, DefaultRetries}
    /\ http = NoRequest
    /\ InitNoFilter

\* Loaders configured with small cache maximums or with the defaults.
InitCache ==
    /\ InitOff
    /\ InitLoads
    /\ InitNames
    /\ InitNoPages
    /\ InitNoCalls
    /\ \/ \E vmax \in 1..MaxCacheSize : InitLoader(vmax, 1)
       \/ InitLoader(_viewer_cache_max_size, _title_cache_max_size)

\* A loader that keeps one entry per cache, facing a server whose answers
\* may be malformed.
InitParse ==
    /\ InitOff
    /\ InitLoads
    /\ InitNames
    /\ InitNoPages
    /\ InitNoCalls
    /\ InitLoader(1, 1)

\* The shapes a manifest file written by some version of the program has:
\* the bare chapter map, the chapter map under "chapters" without a version,
\* version 1, the current version, a later version.
Shapes == {"v0_map", "v0_chapters", "v1", "v2", "v3"}
Encode(shape, raw) ==
    CASE shape = "v0_map" ->
           [version |-> NoVersion, schema |-> Missing, chapters |-> NotAJsonDict,
            rest |-> raw.items]
      [] shape = "v0_chapters" ->
           [version |-> NoVersion, schema |-> Missing, chapters |-> raw,
            rest |-> NoItems]
      [] shape = "v1" ->
           [version |-> 1, schema |-> Missing, chapters |-> raw, rest |-> NoItems]
      [] shape = "v2" ->
           [version |-> MANIFEST_VERSION, schema |-> MANIFEST_SCHEMA,
            chapters |-> raw, rest |-> NoItems]
      [] shape = "v3" ->
           [version |-> MANIFEST_VERSION + 1, schema |-> MANIFEST_SCHEMA,
            chapters |-> raw, rest |-> NoItems]

\* Chapter maps found in a file: none, an empty one, chapter 1 completed,
\* the same next to an item that is not an entry, only such an item.
CompletedEntry(c) == [NewEntry(c) EXCEPT !.status = "completed"]
RawMaps ==
    {NotAJsonDict,
     JsonDict(NoItems),
     JsonDict([c \in {1} |-> Item(CompletedEntry(c))]),
     JsonDict([c \in {1, 2} |-> IF c = 1 THEN Item(CompletedEntry(c))
                                ELSE NotADict]),
     JsonDict([c \in {2} |-> NotADict])}

OriginalFile ==
    IF origin.shape \in Shapes THEN WholeFile(Encode(origin.shape, origin.raw))
    ELSE GarbledFile(origin.shape)

\* Two processes construct a manifest in a title directory where some file,
\* of any shape, is at the manifest path; the second one autosaves.
InitLoad ==
    /\ \/ origin \in [shape : Shapes, raw : RawMaps]
       \/ origin \in [shape : FileForms \ {"json"}, raw : {NotAJsonDict}]
    /\ disk = [t \in Titles |-> IF t = Dir THEN OriginalFile ELSE NoFile]
    /\ raises = [i \in Inst |-> "none"]
    /\ InitLoader(_viewer_cache_max_size, _title_cache_max_size)
    /\ InitNames
    /\ InitNoPages
    /\ InitNoCalls
    /\ tmp = [i \in Inst |-> NoFile]
    /\ held = {}
    /\ now = 0
    /\ \E a \in BOOLEAN :
         inst = [i \in Inst |-> [chapters |-> EmptyChapters, dirty |-> FALSE,
                                 autosave |-> IF i = 1 THEN a ELSE TRUE]]
    /\ ipc = [i \in Inst |-> "acquire"]
    /\ iop = [i \in Inst |-> [NoOp EXCEPT !.kind = "load"]]
    /\ applied = [c \in Chapters |-> "none"]
    /\ crashes = 0
    /\ calls = 0
    /\ resume = [r \in Runs |-> FALSE]
    /\ manifest_reset = [r \in Runs |-> FALSE]
    /\ summary = [r \in Runs |-> ZeroSummary]
    /\ titles = [r \in Runs |-> <<>>]
    /\ cur = [r \in Runs |-> NoTitle]
    /\ man = [r \in Runs |-> ClosedManifest]
    /\ exc = [r \in Runs |-> "none"]
    /\ error = [r \in Runs |-> Null]
    /\ outcome = [r \in Runs |-> NoOutcome]
    /\ exported = {}
    /\ finished = [r \in Runs |-> {}]
    /\ attempted = [r \in Runs |-> {}]
    /\ queued = [r \in Runs |-> {}]
    /\ pc = [r \in Runs |-> "off"]
    /\ runs = [r \in Runs |-> 0]
    /\ request = Chapters
    /\ output_format = "pdf"

\* Process 1 is about to call download() for the whole catalog, raw output;
\* process 2 holds a manifest instance of title 1's directory.
InitReset ==
    /\ InitShared
    /\ InitX
    /\ \E a \in BOOLEAN :
         inst = [i \in Inst |-> [chapters |-> EmptyChapters, dirty |-> FALSE,
                                 autosave |-> a]]
    /\ pc = [r \in Runs |-> IF r = 1 THEN "idle" ELSE "off"]
    /\ runs = [r \in Runs |-> 0]
    /\ request = Chapters
    /\ output_format = "raw"

SaveSteps(i) ==
    \/ SaveCreateTmp(i)
    \/ SaveWriteTmp(i)
    \/ SaveReplace(i)

MarkSteps(i, chapter_ids) ==
    \/ \E kind \in MarkKinds, c \in chapter_ids :
         \E arg \in MarkArgs(kind) : BeginMark(i, kind, c, arg)
    \/ Acquire(i)
    \/ AcquireTimeout(i)
    \/ ReadFile(i)
    \/ Merge(i)
    \/ Release(i)

NextAutosave ==
    \/ Tick
    \/ \E i \in Inst : MarkSteps(i, MarkChapters) \/ SaveSteps(i)

NextManifest ==
    \/ Tick
    \/ \E i \in Inst :
         \/ MarkSteps(i, {1})
         \/ SaveSteps(i)
         \/ BeginSave(i)
         \/ BeginFlush(i)
         \/ BeginReset(i)
         \/ BeginLoad(i)
         \/ FlushLocked(i)
         \/ ResetLocked(i)
         \/ Crash(i)
         \/ Restart(i)

Next ==
    \/ Tick
    \/ \E r \in Runs :
         \/ \E res \in BOOLEAN, rst \in BOOLEAN : StartDownload(r, res, rst)
         \/ \E ok \in BOOLEAN : Normalize(r, ok)
         \/ \E ok \in BOOLEAN : GetTitleDetails(r, ok)
         \/ OpenManifest(r)
         \/ ResetManifest(r)
         \/ Plan(r)
         \/ \E result \in {"ok", "no_last_page", "error"} : LoadPages(r, result)
         \/ MarkStarted(r)
         \/ \E ok \in BOOLEAN : Export(r, ok)
         \/ MarkCompleted(r)
         \/ CountDownloaded(r)
         \/ HandleFailure(r)
         \/ Interrupt(r)
         \/ ProcessTitleFinally(r)
         \/ DownloadFinally(r)

\* Runs that meet chapter failures but no title-level error and no interrupt.
NextTwoRuns ==
    \E r \in Runs :
        \/ StartDownload(r, TRUE, FALSE)
        \/ Normalize(r, TRUE)
        \/ GetTitleDetails(r, TRUE)
        \/ OpenManifest(r)
        \/ Plan(r)
        \/ \E result \in {"ok", "error"} : LoadPages(r, result)
        \/ MarkStarted(r)
        \/ Export(r, TRUE)
        \/ MarkCompleted(r)
        \/ CountDownloaded(r)
        \/ HandleFailure(r)
        \/ ProcessTitleFinally(r)
        \/ DownloadFinally(r)

\* Constructors, then marks of chapter 1 and flushes.
NextLoad ==
    \E i \in Inst :
        \/ MarkSteps(i, {1})
        \/ SaveSteps(i)
        \/ BeginFlush(i)
        \/ FlushLocked(i)

\* One download() after another by process 1, each with or without resume
\* and manifest reset, while process 2 works on title 1's manifest through an
\* instance of its own: it marks chapter 1 completed, flushes, resets.
NextReset ==
    \/ \E res \in BOOLEAN, rst \in BOOLEAN : StartDownload(1, res, rst)
    \/ Normalize(1, TRUE)
    \/ GetTitleDetails(1, TRUE)
    \/ OpenManifest(1)
    \/ ResetManifest(1)
    \/ Plan(1)
    \/ LoadPages(1, "ok")
    \/ MarkStarted(1)
    \/ Export(1, TRUE)
    \/ MarkCompleted(1)
    \/ CountDownloaded(1)
    \/ ProcessTitleFinally(1)
    \/ DownloadFinally(1)
    \/ BeginMark(2, "mark_completed", 1, "path")
    \/ BeginReset(2)
    \/ BeginFlush(2)
    \/ Acquire(2)
    \/ ReadFile(2)
    \/ Merge(2)
    \/ FlushLocked(2)
    \/ ResetLocked(2)
    \/ SaveSteps(2)
    \/ Release(2)

ClearSteps ==
    \/ _clear_api_caches_for_run
    \/ \E t \in Titles :
         \E listed \in BOOLEAN :
            _clear_api_caches_for_title(t, IF listed THEN ChaptersOf(t) ELSE {})

\* Runs of process 1 without resume in which every chapter is exported.
NextPlan ==
    \/ StartDownload(1, FALSE, FALSE)
    \/ Normalize(1, TRUE)
    \/ GetTitleDetails(1, TRUE)
    \/ OpenManifest(1)
    \/ Plan(1)
    \/ LoadPages(1, "ok")
    \/ MarkStarted(1)
    \/ Export(1, TRUE)
    \/ MarkCompleted(1)
    \/ CountDownloaded(1)
    \/ ProcessTitleFinally(1)
    \/ DownloadFinally(1)

NextPages ==
    \/ \E skip \in BOOLEAN : ExportPage(skip)
    \/ ExhaustPages

NextCache ==
    \/ \E n \in ViewerIds, form \in IdForms :
         _load_pages(n, form, FALSE)
    \/ \E t \in Titles, form \in IdForms :
         _get_title_details(t, form, FALSE)
    \/ ClearSteps

NextParse ==
    \/ \E n \in ViewerIds :
         _load_pages(n, "int", TRUE)
    \/ \E t \in Titles :
         _get_title_details(t, "int", TRUE)
    \/ ClearSteps

NextXor == XorDecrypt

NextRetry ==
    \/ \E n \in {1, 2} : SessionGet(n)
    \/ \E status_code \in StatusSamples, has_retry_after \in BOOLEAN :
         Exchange(status_code, has_retry_after)

NextNormalize ==
    \/ NormalizeEnter
    \/ \E chapter_id \in Chapters : NormalizeChapterId(chapter_id)
    \/ NormalizeCollectTitles
    \/ \E title_id \in Titles : NormalizeTitleId(title_id)
    \/ NormalizeResolve

SpecManifest == InitManifest /\ [][NextManifest]_vars
SpecAutosave == InitAutosave /\ [][NextAutosave]_vars
Spec == Init /\ [][Next]_vars
SpecTwoRuns == InitTwoRuns /\ [][NextTwoRuns]_vars
SpecReset == InitReset /\ [][NextReset]_vars
SpecLoad == InitLoad /\ [][NextLoad]_vars
SpecCache == InitCache /\ [][NextCache]_vars
SpecParse == InitParse /\ [][NextParse]_vars
SpecPlan == InitPlan /\ [][NextPlan]_vars
SpecPages == InitPages /\ [][NextPages]_vars
SpecXor == InitXor /\ [][NextXor]_vars
SpecNormalize == InitNormalize /\ [][NextNormalize]_vars
\* download() calls of one loader against the API: resumed or not, raw
\* output, chapter failures, title-level errors and interrupts.
InitRuntime ==
    /\ InitOrchestrators({1})
    /\ output_format = "raw"

NextRuntime ==
    \/ \E res \in BOOLEAN : RuntimeStartDownload(res, FALSE)
    \/ RuntimeNormalize
    \/ RuntimeGetTitleDetails
    \/ OpenManifest(1)
    \/ Plan(1)
    \/ RuntimeLoadPages
    \/ MarkStarted(1)
    \/ \E ok \in BOOLEAN : Export(1, ok)
    \/ MarkCompleted(1)
    \/ CountDownloaded(1)
    \/ HandleFailure(1)
    \/ Interrupt(1)
    \/ RuntimeProcessTitleFinally
    \/ RuntimeDownloadFinally
    \/ \E n \in Chapters : LoadPagesBetweenRuns(n)

SpecRuntime == InitRuntime /\ [][NextRuntime]_vars

\* The lists of distinct chapter ids: the keys of a dict in some order.
RECURSIVE DistinctSeqs(_)
DistinctSeqs(S) ==
    {<<>>} \cup UNION {{<<x>> \o q : q \in DistinctSeqs(S \ {x})} : x \in S}

\* The planner's stem of chapter c under title 1, and a stem no chapter has.
StemUnderTitle1(c) ==
    build_expected_filename(Title(escape_path(catalog.titles[1].name)),
                            catalog.chapters[c], ChapterMetadata(c).sub_title)
OtherStem == <<"c", "o", "v", "e", "r">>

\* filter_chapters_to_download is called with metadata for some chapters in
\* some order, a title dump that lists some chapters, some stems on disk and
\* some requested ids.
InitFilter ==
    /\ InitOff
    /\ InitLoads
    /\ InitLoader(_viewer_cache_max_size, _title_cache_max_size)
    /\ InitNames
    /\ InitNoPages
    /\ InitNoData
    /\ InitNoNormalize
    /\ InitNoRequest
    /\ plan_args \in
          [chapter_data : DistinctSeqs(Chapters),
           title_dump : SUBSET Chapters,
           existing_files : SUBSET ({StemUnderTitle1(c) : c \in Chapters}
                                       \cup {OtherStem}),
           requested_chapter_ids : SUBSET Chapters]
    /\ plan_pc = "called"
    /\ planned_ids = <<>>

NextFilter == FilterChapters

SpecFilter == InitFilter /\ [][NextFilter]_vars

SpecRetry == InitRetry /\ [][NextRetry]_vars

----------------------------------------------------------------------------
(* Properties of the orchestrator (Spec) *)

DiskChapters(t) == _load_unlocked(disk[t]).chapters
DiskStatus(c) == StatusIn(DiskChapters(TitleOf(c)), c)

Exited(r) == pc[r] = "idle" /\ runs[r] > 0

\* C1: Partial-failure isolation.  When download() returns, every chapter the
\* title loops were to process was attempted, whatever failed before it: the
\* chapters that raised are exactly failed_chapter_ids, failed counts them,
\* downloaded counts the others, and with resume the manifest files record
\* the former as failed and the latter as completed.
C1_PartialFailureIsolation ==
    \A r \in Runs :
        (Exited(r) /\ outcome[r].kind = "returned") =>
            LET s == outcome[r].summary
                ids == s.failed_chapter_ids
            IN /\ attempted[r] = queued[r]
               /\ SeqToSet(ids) = attempted[r] \ finished[r]
               /\ Len(ids) = Cardinality(SeqToSet(ids))
               /\ s.failed = Len(ids)
               /\ s.downloaded = Cardinality(finished[r])
               /\ resume[r] =>
                    \A c \in attempted[r] :
                        DiskStatus(c) = IF c \in finished[r] THEN "completed"
                                        ELSE "failed"

\* Chapter 1 failed, and the next chapter of the title and the next title were
\* still downloaded.
C1_Witness ==
    /\ Exited(1)
    /\ outcome[1].kind = "returned"
    /\ resume[1]
    /\ outcome[1].summary.downloaded = 2
    /\ outcome[1].summary.failed = 1
    /\ outcome[1].summary.failed_chapter_ids = <<1>>
    /\ DiskStatus(1) = "failed"
    /\ DiskStatus(2) = "completed"
    /\ DiskStatus(MaxChapter) = "completed"

\* The chapters the loop of _process_title still has to go through.
ToProcess(r) ==
    IF pc[r] = "load_pages" THEN {cur[r].chapter} \cup SeqToSet(cur[r].queue)
    ELSE {}

AllRequestedCompletedOnDisk == \A c \in request : DiskStatus(c) = "completed"

\* C2: Resume skip.  With resume on, the planning step of a title leaves out of
\* the chapters the planner selected exactly those the title's manifest file
\* records as completed, and adds their number to skipped_manifest; chapters
\* recorded as failed or in_progress, or not recorded, stay to be processed.
\* Once every requested chapter is recorded as completed, a resumed run
\* without manifest reset attempts no chapter.
C2_ResumeSkip ==
    [][\A r \in Runs :
        /\ (pc[r] = "plan" /\ pc'[r] # "plan" /\ exc'[r] = "none" /\ resume[r]) =>
              LET selected == _filter_chapters_to_download(cur[r].title)
                  done == {c \in selected : DiskStatus(c) = "completed"}
              IN /\ ToProcess(r)' = selected \ done
                 /\ summary'[r].skipped_manifest =
                        summary[r].skipped_manifest + Cardinality(done)
        /\ (AllRequestedCompletedOnDisk /\ resume'[r] /\ ~manifest_reset'[r]) =>
              attempted'[r] \subseteq attempted[r]
      ]_vars

\* A second run over a fully completed catalog skipped chapters and attempted
\* none; a resumed run went on to retry a chapter recorded as failed.
C2_Witness ==
    /\ Exited(1)
    /\ runs[1] = 2
    /\ resume[1] /\ ~manifest_reset[1]
    /\ outcome[1].kind = "returned"
    /\ outcome[1].summary.skipped_manifest = Cardinality(request)
    /\ outcome[1].summary.skipped_manifest >= 2
    /\ attempted[1] = {}

\* C3: A KeyboardInterrupt inside a run makes download() raise
\* DownloadInterruptedError with the counters accumulated so far; the raw
\* interrupt never leaves download().
C3_InterruptRaisesInterruptedError ==
    \A r \in Runs :
        (Exited(r) /\ exc[r] = "KeyboardInterrupt") =>
            /\ outcome[r].kind = "DownloadInterruptedError"
            /\ outcome[r].has_summary
            /\ outcome[r].summary = summary[r]

\* C4: When an interrupt ends a run with resume on, the manifest files record
\* as completed every chapter whose processing finished before the interrupt,
\* by the time download() exits.
C4_InterruptKeepsProgress ==
    \A r \in Runs :
        (Exited(r) /\ exc[r] = "KeyboardInterrupt" /\ resume[r]) =>
            \A c \in finished[r] :
                /\ disk[TitleOf(c)].exists /\ disk[TitleOf(c)].complete
                /\ is_completed(DiskChapters(TitleOf(c)), c)

\* An interrupt hit while a later chapter was being processed.
C4_Witness ==
    /\ Exited(1)
    /\ exc[1] = "KeyboardInterrupt"
    /\ resume[1]
    /\ finished[1] # {}
    /\ attempted[1] \ finished[1] # {}
    /\ summary[1].failed = 0

\* C5: A run that downloaded or failed chapters ends with the caller holding
\* those counters: download() returned the summary or raised the interrupted
\* error that carries it.  Stated for the runs that no interrupt ended, a
\* later title's detail fetch failing among them.
C5_NoLostProgress ==
    \A r \in Runs :
        (Exited(r) /\ exc[r] # "KeyboardInterrupt"
            /\ summary[r].downloaded + summary[r].failed > 0) =>
            /\ outcome[r].kind \in {"returned", "DownloadInterruptedError"}
            /\ outcome[r].has_summary
            /\ outcome[r].summary = summary[r]

AllowedStatusStep(old, new) ==
    \/ old = new
    \/ old = "absent" /\ new = "in_progress"
    \/ old = "in_progress" /\ new \in {"completed", "failed"}
    \/ old = "failed" /\ new = "in_progress"

\* C10: Per-chapter state machine.  While a run holds a title's manifest, a
\* chapter's entry is created only as in_progress, becomes completed or failed
\* only from in_progress, and returns to in_progress only from failed.
C10_StateMachine ==
    [][\A r \in Runs, c \in Chapters :
        (man[r].open /\ man'[r].open /\ man'[r].title = man[r].title
            /\ pc[r] \notin {"open", "reset"}) =>
            /\ AllowedStatusStep(StatusIn(man[r].chapters, c),
                                 StatusIn(man'[r].chapters, c))
            /\ StatusIn(man'[r].chapters, c) \in StatusValues \cup {"absent"}
      ]_vars

----------------------------------------------------------------------------
(* Properties of two concurrent orchestrators (SpecTwoRuns) *)

\* C8: With two resumed runs on the same title directories, a chapter that the
\* manifest file records as completed is still recorded as completed after
\* any later step of either run, the other run's flush included.
C8_FlushKeepsOtherRunsProgress ==
    [][\A c \in Chapters :
        DiskStatus(c) = "completed" => DiskStatus(c)' = "completed"]_vars

----------------------------------------------------------------------------
(* Properties of the manifest (SpecManifest, SpecAutosave) *)

\* Positions inside "with self._lock".
LockedSteps ==
    {"locked", "merge", "save_tmp", "save_write", "save_replace", "release"}

\* C6: Manifest atomicity.  The file at the manifest path is never a partly
\* written file, whatever step a process crashes at; whenever it changes it
\* becomes absent (reset) or the complete serialisation of the saving
\* instance's chapters, so a reader sees the complete old or the complete new
\* content.
C6_ManifestAtomicity ==
    /\ [](\A t \in Titles : disk[t].exists => disk[t].complete)
    /\ [][\A t \in Titles :
            disk'[t] # disk[t] =>
                \/ ~disk'[t].exists
                \/ \E i \in Inst :
                     /\ ipc[i] = "save_replace"
                     /\ disk'[t] = WholeFile(SavedPayload(inst[i].chapters))
         ]_vars

\* A process died between writing its temporary file and the rename: the
\* manifest path still holds the complete previous content.
C6_Witness ==
    \E i \in Inst :
        /\ ipc[i] = "crashed"
        /\ tmp[i].exists /\ tmp[i].complete
        /\ disk[Dir].exists /\ disk[Dir].complete
        /\ disk[Dir].payload # tmp[i].payload

\* C7: Autosave instances of one title directory, calls interleaved at will:
\* whenever no locked section is open, the manifest file has an entry for
\* every chapter marked by any instance and its status is that of the last
\* mark applied to the chapter.
C7_AutosaveMerges ==
    held = {} =>
        \A c \in Chapters :
            applied[c] # "none" => DiskStatus(c) = applied[c]

\* Instance 1 marked chapter 1, then instance 2 marked chapter 2 and kept
\* the entry of chapter 1.
C7_Witness ==
    /\ held = {}
    /\ DOMAIN inst[1].chapters = {1}
    /\ DOMAIN inst[2].chapters = {1, 2}
    /\ DOMAIN DiskChapters(Dir) = {1, 2}
    /\ applied[1] # "none" /\ applied[2] # "none"

\* C9: Every read, write, replace and delete of the manifest file happens
\* inside the acting instance's locked section, and at most one instance is
\* inside a locked section at any time.
C9_LockedIO ==
    /\ [](/\ Cardinality(held) <= 1
          /\ \A i \in Inst : ipc[i] \in LockedSteps => i \in held)
    /\ [][/\ \A i \in Inst : tmp'[i] # tmp[i] => held = {i}
          /\ disk' # disk => \E i \in Inst : held = {i} /\ ipc'[i] # ipc[i]
         ]_vars

\* One instance is about to rename its temporary file while the other waits
\* for the lock.
C9_Witness ==
    \E i, j \in Inst :
        /\ i # j
        /\ ipc[i] = "save_replace"
        /\ ipc[j] = "acquire"
        /\ held = {i}

\* The entry the mark at hand would store is the entry stored already.
SameAsStored(chapters, chapter_id, updates) ==
    /\ chapter_id \in DOMAIN chapters
    /\ MergedEntry(chapters, chapter_id, updates) = chapters[chapter_id]

MarkAtHandIsIdentical(i) ==
    /\ ipc[i] = "merge"
    /\ SameAsStored(inst[i].chapters, iop[i].chapter_id,
                    UpdatesOf(iop[i].kind, iop[i].ts, iop[i].arg))

\* C33: A mark whose merged entry equals the stored entry writes nothing.  In
\* autosave mode the call goes from the comparison straight to the release of
\* the lock, with memory, the manifest file and the temporary file as they
\* were; in manual mode a call that leaves the chapters as they were leaves
\* the dirty flag as it was.  A mark applied to the memory a mark with the
\* same arguments and timestamp has just produced is such a mark, and leaves
\* that memory as it is.
C33_IdenticalMarkWritesNothing ==
    /\ [](\A i \in Inst, kind \in MarkKinds, c \in MarkChapters :
            \A arg \in MarkArgs(kind) :
                LET updates == UpdatesOf(kind, _utc_timestamp, arg)
                    once == _mark_entry_memory(Mem(i), c, updates)
                IN /\ SameAsStored(once.chapters, c, updates)
                   /\ _mark_entry_memory(once, c, updates) = once)
    /\ [][\A i \in Inst :
            /\ (MarkAtHandIsIdentical(i) /\ ipc'[i] \notin {"merge", "crashed"}) =>
                  /\ ipc'[i] = "release"
                  /\ inst'[i] = inst[i]
                  /\ disk' = disk
                  /\ tmp' = tmp
            /\ (/\ ~inst[i].autosave
                /\ ipc[i] = "ready" /\ ipc'[i] = "ready"
                /\ calls' = calls + 1
                /\ inst'[i].chapters = inst[i].chapters) =>
                  /\ inst'[i].dirty = inst[i].dirty
                  /\ disk' = disk
         ]_vars

\* An autosave instance has reloaded the file and is at the comparison with a
\* mark_failed whose entry the manifest file holds already.
C33_Witness ==
    \E i \in Inst :
        /\ MarkAtHandIsIdentical(i)
        /\ iop[i].kind = "mark_failed"
        /\ iop[i].chapter_id \in DOMAIN DiskChapters(Dir)
        /\ DiskChapters(Dir)[iop[i].chapter_id] = inst[i].chapters[iop[i].chapter_id]

\* The instance is a manual one about to return from the locked section of
\* the call named.
Returning(i, kinds) ==
    /\ ~inst[i].autosave
    /\ ipc[i] = "release"
    /\ iop[i].kind \in kinds

IsSet(value) == value \notin {Null, Missing}

\* What the entry stored under key k looks like for each status.
EntryInvariant(k, entry) ==
    /\ entry.chapter_id = k
    /\ entry.status \in StatusValues
    /\ entry.status = "in_progress" =>
          /\ entry.completed_at = Null
          /\ entry.failed_at = Null
          /\ entry.error = Null
    /\ entry.status = "completed" =>
          /\ IsSet(entry.completed_at)
          /\ entry.failed_at = Null
          /\ entry.error = Null
    /\ entry.status = "failed" =>
          /\ IsSet(entry.failed_at)
          /\ IsSet(entry.error)

\* C39: in a manifest that starts empty, whatever marks the instances have
\* made, every entry in an instance's memory and every entry of the manifest
\* file is stored under its chapter_id, an in_progress entry has completed_at,
\* failed_at and error null, a completed entry has completed_at set and
\* failed_at and error null, and a failed entry has failed_at and error set.
C39_EntryInvariants ==
    /\ \A i \in Inst :
          \A k \in DOMAIN inst[i].chapters :
             EntryInvariant(k, inst[i].chapters[k])
    /\ \A k \in DOMAIN DiskChapters(Dir) :
          EntryInvariant(k, DiskChapters(Dir)[k])

\* Chapter 1 was completed and then marked failed: the entry in memory and
\* in the file is failed, with the earlier completed_at still there.
C39_Witness ==
    \E i \in Inst :
        /\ 1 \in DOMAIN inst[i].chapters
        /\ inst[i].chapters[1].status = "failed"
        /\ IsSet(inst[i].chapters[1].completed_at)
        /\ IsSet(inst[i].chapters[1].started_at)
        /\ 1 \in DOMAIN DiskChapters(Dir)
        /\ DiskChapters(Dir)[1] = inst[i].chapters[1]

----------------------------------------------------------------------------
(* The run summary *)

----------------------------------------------------------------------------
(* Properties of the API caches (SpecCache, SpecParse) *)

LastKeys(keys, k) == {keys[i] : i \in {j \in DOMAIN keys : j > Len(keys) - k}}

\* The key of a cache whose last insertion or hit is oldest.
LeastRecentlyUsed(cache, keys) ==
    keys[CHOOSE i \in DOMAIN keys :
            /\ keys[i] \in CacheKeys(cache)
            /\ \A j \in DOMAIN keys : keys[j] \in CacheKeys(cache) => i <= j]

EvictsOnlyTheOldest(cache, cache_after, keys, max_size) ==
    (Len(cache) = max_size /\ CacheKeys(cache_after) \ CacheKeys(cache) # {}) =>
        CacheKeys(cache) \ CacheKeys(cache_after) =
            {LeastRecentlyUsed(cache, keys)}

\* C12: LRU eviction.  An insertion into a full cache evicts exactly the key
\* whose last insertion or hit is oldest; and at any time, for every k up to
\* the maximum, the k keys accessed most recently are in the cache, a hit
\* counting as an access.
C12_LruEviction ==
    /\ [](/\ \A k \in 0..viewer_max :
               LastKeys(unbroken.viewer, k) \subseteq CacheKeys(viewer_cache)
          /\ \A k \in 0..title_max :
               LastKeys(unbroken.title, k) \subseteq CacheKeys(title_cache))
    /\ [][/\ EvictsOnlyTheOldest(viewer_cache, viewer_cache', accessed.viewer,
                                 viewer_max)
          /\ EvictsOnlyTheOldest(title_cache, title_cache', accessed.title,
                                 title_max)
         ]_vars

\* Chapter 1 was cached first, then 2, then 1 was hit, then 3 came in: the
\* cache of two holds 1 and 3, and 2 is gone.
C12_Witness ==
    /\ viewer_max = 2
    /\ unbroken.viewer = <<"2", "1", "3">>
    /\ CacheKeys(viewer_cache) = {"1", "3"}
    /\ fetched.cache = "viewer" /\ fetched.got

\* C13: After every fetch and every clear, the viewer cache holds at most its
\* configured maximum of entries and the title cache at most its own, each
\* maximum applying to its cache alone.
C13_CachesBounded ==
    /\ Len(viewer_cache) <= viewer_max
    /\ Len(title_cache) <= title_max

\* Both caches are full, with different maximums, and a title was just
\* fetched over HTTP into its full cache.
C13_Witness ==
    /\ viewer_max = 2 /\ Len(viewer_cache) = 2
    /\ title_max = 1 /\ Len(title_cache) = 1
    /\ Len(unbroken.title) = 2
    /\ fetched.cache = "title" /\ fetched.got /\ fetched.raised = "none"

CacheOf(kind) == IF kind = "viewer" THEN viewer_cache ELSE title_cache

\* C14: A fetch whose key str(id) is in the cache returns the cached payload
\* without an HTTP request, and a fetch whose key is not issues one GET, so
\* two fetches of an identifier with its entry kept in between cost one GET.
\* The int and the string form of an identifier share one entry: every key
\* is the decimal string of its identifier.
C14_CacheHit ==
    /\ [](/\ CacheKeys(viewer_cache) \subseteq {ToString(n) : n \in ViewerIds}
          /\ CacheKeys(title_cache) \subseteq {ToString(t) : t \in Titles})
    /\ [][fetched'.nth # fetched.nth =>
            LET cache == CacheOf(fetched'.cache)
                key == ToString(fetched'.id)
            IN IF key \in CacheKeys(cache)
               THEN /\ ~fetched'.got
                    /\ fetched'.raised = "none"
                    /\ fetched'.value = CacheValue(cache, key)
               ELSE fetched'.got
         ]_vars

\* The server now answers chapter 1 with two pages, but the fetch returned the
\* cached one-page viewer without a request.
C14_Witness ==
    /\ fetched.cache = "viewer"
    /\ fetched.id = 1
    /\ ~fetched.got
    /\ fetched.value.pages = 1
    /\ Len(viewer_cache) = 2

WellFormedViewer(v) == v.title_id # 0 /\ v.chapter_id # 0 /\ v.pages > 0
WellFormedTitleDump(v) ==
    /\ v.title_id # 0 \/ v.name # ""
    /\ v.groups > 0
    /\ v.chapters > 0

\* C18: A malformed response is rejected with APIResponseError at parse time:
\* no payload that breaks the downstream invariants is ever cached or
\* returned by a fetch.
C18_MalformedRejected ==
    /\ \A i \in DOMAIN viewer_cache : WellFormedViewer(viewer_cache[i].value)
    /\ \A i \in DOMAIN title_cache : WellFormedTitleDump(title_cache[i].value)
    /\ (fetched.cache = "viewer" /\ fetched.raised = "none") =>
           WellFormedViewer(fetched.value)
    /\ (fetched.cache = "title" /\ fetched.raised = "none") =>
           WellFormedTitleDump(fetched.value)

\* The cache went from before to after by losing the entries of the keys in
\* gone that it held, and nothing else: the entries left are those it had, in
\* the order it had them.
LostOnly(before, after, gone) ==
    /\ CacheKeys(after) = CacheKeys(before) \ gone
    /\ Len(after) = Cardinality(CacheKeys(after))
    /\ \A k \in DOMAIN after :
          \E j \in DOMAIN before :
             /\ after[k] = before[j]
             /\ \A l \in DOMAIN after :
                   \A m \in DOMAIN before :
                      (l < k /\ after[l] = before[m]) => m < j

KeysOf(ids) == {ToString(n) : n \in ids}

\* C35: a clear changes the caches as _clear_api_caches_for_run does, or as
\* the title-scoped clear for some title and its chapter ids or no chapter
\* ids: the title cache loses the title's entry only, the viewer cache the
\* entries of the chapter ids only, every other entry stays where it was in
\* the order, and without chapter ids the viewer cache is as it was.  The
\* title-scoped clear can be made in every state, whatever is cached.
C35_TitleScopedClear ==
    /\ [](\A t \in Titles, listed \in BOOLEAN :
            ENABLED _clear_api_caches_for_title(t, IF listed THEN ChaptersOf(t) ELSE {}))
    /\ [][fetched' = fetched =>
            \/ viewer_cache' = <<>> /\ title_cache' = <<>>
            \/ \E t \in Titles, listed \in BOOLEAN :
                  LET chapter_ids == IF listed THEN ChaptersOf(t) ELSE {} IN
                  /\ LostOnly(title_cache, title_cache', KeysOf({t}))
                  /\ LostOnly(viewer_cache, viewer_cache', KeysOf(chapter_ids))
                  /\ chapter_ids = {} => viewer_cache' = viewer_cache
         ]_vars

\* Chapter 1 was the last fetch and is not cached any more, nor is title 1,
\* while the viewer of title 2's chapter and the details of title 2 are: the
\* clear for title 1 and its chapters has been made.
C35_Witness ==
    /\ fetched.cache = "viewer" /\ fetched.id = 1 /\ fetched.raised = "none"
    /\ CacheKeys(viewer_cache) = KeysOf(ChaptersOf(2))
    /\ CacheKeys(title_cache) = KeysOf({2})

\* The fetch that has just returned asked the server and raised.
FetchFailed ==
    /\ fetched' # fetched
    /\ fetched'.raised # "none"

\* The caches hold no entry for the identifier of the last fetch.
LastFetchUncached ==
    LET cache == IF fetched.cache = "viewer" THEN viewer_cache ELSE title_cache
    IN ToString(fetched.id) \notin CacheKeys(cache)

\* C38: a fetch of a viewer or of title details that raises, on the status
\* check or in parsing, was not answered from the cache and leaves both
\* caches as they were: the same entries in the same order.  As long as the
\* identifier stays uncached, a fetch of it asks the server again.
C38_FailedFetchLeavesCaches ==
    /\ [](fetched.raised # "none" => fetched.got)
    /\ [][/\ FetchFailed =>
               /\ viewer_cache' = viewer_cache
               /\ title_cache' = title_cache
               /\ LastFetchUncached'
          /\ (/\ LastFetchUncached
              /\ fetched' # fetched
              /\ fetched'.cache = fetched.cache
              /\ fetched'.id = fetched.id) => fetched'.got
         ]_vars

\* The server's answer to the request for chapter 1 did not parse while both
\* caches were full with other entries, which are still there.
C38_Witness ==
    /\ fetched.cache = "viewer" /\ fetched.id = 1
    /\ fetched.raised = "DecodeError"
    /\ Len(viewer_cache) = viewer_max
    /\ Len(title_cache) = title_max
    /\ LastFetchUncached

----------------------------------------------------------------------------
(* Properties of loading a manifest (SpecLoad) *)

Loading(i) == ipc[i] = "locked" /\ iop[i].kind = "load" /\ ipc'[i] # ipc[i]

CurrentFormat(file) ==
    /\ file.exists /\ file.complete /\ file.form = "json"
    /\ file.payload.version = MANIFEST_VERSION
    /\ file.payload.schema = MANIFEST_SCHEMA
    /\ file.payload.chapters.is_dict
    /\ \A c \in DOMAIN file.payload.chapters.items :
         file.payload.chapters.items[c].is_dict

\* Files without usable content: not readable, not JSON, not an object, or no
\* chapter map with an entry in it.
Unusable(file) ==
    \/ file.form # "json"
    \/ _normalize_payload(file.payload)[1] = EmptyChapters

\* C15: Constructing a manifest never raises because of the file's content.
\* A file that is unreadable, not JSON, not a JSON object or without a usable
\* chapters map loads as empty: is_completed is false for every chapter.  A
\* mark that follows succeeds and leaves a well-formed manifest file.
C15_LoadNeverRaises ==
    /\ [](\A i \in Inst : raises[i] = "none")
    /\ [][\A i \in Inst :
            /\ (Loading(i) /\ Unusable(disk[Dir])) =>
                  \A c \in Chapters : ~is_completed(inst'[i].chapters, c)
            /\ (ipc[i] = "release" /\ iop[i].kind \in MarkKinds
                  /\ ipc'[i] = "ready") =>
                  /\ CurrentFormat(disk[Dir])
                  /\ StatusIn(DiskChapters(Dir), iop[i].chapter_id)
                        = StatusOfMark(iop[i].kind)
         ]_vars

\* The chapters a current-version file with the original chapter map loads as.
OriginalChapters == _normalize_payload(Encode("v2", origin.raw))[1]

\* C16: Schema migration.  The bare version-0 chapter map, a version-1 payload
\* and a current-version payload of the same chapters load as the same
\* chapter map.  A load that migrated is followed by a persist, at once in
\* autosave mode and at the flush in manual mode, and what a persist writes
\* has version 2, the schema name, and every chapter entry of the instance.
C16_MigrationEquivalence ==
    [][\A i \in Inst :
         /\ (Loading(i) /\ disk[Dir] = OriginalFile
               /\ origin.shape \in {"v0_map", "v1", "v2"}) =>
               /\ inst'[i].chapters = OriginalChapters
               /\ origin.shape # "v2" =>
                    /\ inst'[i].dirty
                    /\ inst[i].autosave => ipc'[i] = "save_tmp"
         /\ (ipc[i] = "save_replace" /\ ipc'[i] # ipc[i]) =>
               /\ CurrentFormat(disk'[Dir])
               /\ _coerce_chapter_entries(disk'[Dir].payload.chapters)
                     = inst[i].chapters
      ]_vars

\* A bare version-0 chapter map was loaded and written back in the current
\* format with its completed chapter.
C16_Witness ==
    /\ origin.shape = "v0_map"
    /\ CurrentFormat(disk[Dir])
    /\ is_completed(DiskChapters(Dir), 1)
    /\ \A i \in Inst : ipc[i] = "ready" /\ is_completed(inst[i].chapters, 1)
    /\ calls = 0

----------------------------------------------------------------------------
(* Properties of reset (SpecReset) *)

\* C17: When reset() returns, the manifest file does not exist, is_completed
\* is false for every chapter and nothing is left to flush, whatever the
\* instance and the file held before; with the file already missing, the
\* file system is left as it is and nothing is raised.  A run with manifest
\* reset requested resets the title's manifest before it filters the
\* completed chapters, so it skips none on account of the manifest.
C17_Reset ==
    /\ [](\A r \in Runs :
            /\ manifest_reset[r] => summary[r].skipped_manifest = 0
            /\ (manifest_reset[r] /\ pc[r] = "plan") =>
                 /\ \A c \in Chapters : ~is_completed(man[r].chapters, c)
                 /\ ~man[r].dirty)
    /\ [][\A i \in Inst :
            /\ (pc[i] = "reset" /\ pc'[i] # "reset") =>
                 /\ ~disk'[cur[i].title].exists
                 /\ ~disk[cur[i].title].exists => disk' = disk
                 /\ exc'[i] = "none"
            /\ (iop[i].kind = "reset" /\ ipc[i] = "release" /\ ipc'[i] = "ready") =>
                 /\ ~disk'[Dir].exists
                 /\ \A c \in Chapters : ~is_completed(inst'[i].chapters, c)
                 /\ ~inst'[i].dirty
                 /\ raises'[i] = "none"
            /\ (iop[i].kind = "reset" /\ ipc[i] = "locked" /\ ipc'[i] # "locked"
                  /\ ~disk[Dir].exists) =>
                 disk' = disk /\ tmp' = tmp
         ]_vars

\* A run with resume and reset planned title 1 with chapter 1 in its queue,
\* although process 2's instance had recorded chapter 1 as completed in the
\* file the reset removed.
C17_Witness ==
    /\ pc[1] = "load_pages"
    /\ resume[1] /\ manifest_reset[1]
    /\ cur[1].title = 1 /\ cur[1].chapter = 1
    /\ inst[2].autosave
    /\ is_completed(inst[2].chapters, 1)
    /\ ipc[2] = "ready"
    /\ ~disk[1].exists

----------------------------------------------------------------------------
(* Properties of the chapter file names *)

\* The stem of the file the exporter of chapter c writes.
ExporterStem(c) == Stem(ExporterPath(ExporterOf(c), output_format))

StemsAgree == \A c \in Chapters : ExpectedFilename(c) = ExporterStem(c)

\* The planner of a title leaves out the chapters whose archive is there.
PlanLeavesOutArchived ==
    \A r \in Runs :
        (pc[r] = "plan" /\ pc'[r] # "plan")
            => \A c \in exported \cap ChaptersOf(cur[r].title) :
                  c \notin cur'[r].planned

\* C19: for every title and chapter the planner's build_expected_filename
\* stem equals the stem of the file the CBZ or PDF exporter writes, so a
\* chapter whose archive a previous run wrote is left out of the plan.
C19_PlannerMatchesExporter == []StemsAgree /\ [][PlanLeavesOutArchived]_vars

\* No chapter's two stems agree, and the planner of a later run keeps every
\* archived chapter.
StemsNeverAgree == \A c \in Chapters : ExpectedFilename(c) # ExporterStem(c)

ArchivedChaptersPlannedAgain ==
    \A r \in Runs :
        (pc[r] = "plan" /\ pc'[r] # "plan")
            => exported \cap ChaptersOf(cur[r].title) \subseteq cur'[r].planned

PlannerNeverMatchesExporter ==
    []StemsNeverAgree /\ [][ArchivedChaptersPlannedAgain]_vars

ReplannedArchive ==
    \E r \in Runs : pc[r] = "load_pages" /\ cur[r].chapter \in exported

----------------------------------------------------------------------------
(* Properties of the page indices *)

\* Counter values used up by the pages before the k-th one.
RECURSIVE CounterBefore(_)
CounterBefore(k) ==
    IF k = 1 THEN 0
    ELSE CounterBefore(k - 1) + (IF pages[k - 1] = DOUBLE THEN 2 ELSE 1)

ExpectedIndex(k) ==
    IF pages[k] = DOUBLE
    THEN Range(CounterBefore(k), CounterBefore(k) + 1)
    ELSE Scalar(CounterBefore(k))

\* C20: export_pages numbers the pages from a counter that starts at 0: a
\* page that is not a double spread gets the next value n, a double spread
\* uses up n and n+1 and gets range(n, n+1); [single, double, single] get
\* [0, range(1,2), 3]; the index of a page follows from the types of the
\* pages before it, whatever the exporter skips, and add_image receives
\* the indices of the pages not skipped, in order.
C20_DoublePageIndexing ==
    /\ Len(output_indices) = page_pos
    /\ \A k \in 1..page_pos : output_indices[k] = ExpectedIndex(k)
    /\ (pages = <<SINGLE, DOUBLE, SINGLE>> /\ exhausted)
          => output_indices = <<Scalar(0), Range(1, 2), Scalar(3)>>
    /\ \E kept \in SUBSET (1..page_pos) :
          /\ Len(added) = Cardinality(kept)
          /\ \A i \in DOMAIN added :
                \E k \in kept :
                    /\ added[i] = output_indices[k]
                    /\ Cardinality({j \in kept : j < k}) = i - 1

C20_Witness ==
    /\ pages = <<SINGLE, DOUBLE, SINGLE>>
    /\ exhausted
    /\ output_indices = <<Scalar(0), Range(1, 2), Scalar(3)>>
    /\ added = <<Range(1, 2), Scalar(3)>>

----------------------------------------------------------------------------
(* Properties of the XOR decryption (SpecXor) *)

\* The bits set in a byte.
Bits(n) == {k \in 0..7 : (n \div (2 ^ k)) % 2 = 1}

\* C21: XOR decryption computes plaintext[i] = ciphertext[i] XOR
\* key[i mod len(key)] for every byte position and keeps the length;
\* applying it twice with the same non-empty key restores the original
\* bytes, for every byte sequence and every non-empty key.
C21_XorDecrypt ==
    Len(xor_key) > 0 =>
        /\ xor_raised = "none"
        /\ Len(data) = Len(ciphertext)
        /\ decrypts % 2 = 1 =>
              \A i \in 1..Len(data) :
                 LET k == xor_key[((i - 1) % Len(xor_key)) + 1]
                 IN /\ data[i] \in Bytes
                    /\ Bits(data[i]) = (Bits(ciphertext[i]) \ Bits(k))
                                          \cup (Bits(k) \ Bits(ciphertext[i]))
        /\ decrypts % 2 = 0 => data = ciphertext

C21_Witness ==
    /\ decrypts = 2
    /\ Len(data) = MaxData
    /\ Len(xor_key) = 2
    /\ xor_key[1] # xor_key[2]
    /\ data[MaxData] = 65
    /\ xor_key[1] = 15
    /\ data = ciphertext

----------------------------------------------------------------------------
(* Properties of the normalization (SpecNormalize) *)

\* The last chapter the server lists for a title.
LastListed(t) == ChapterList(t)[Len(ChapterList(t))].id

\* C23: With last_chapter_only set, normalization maps each title to exactly
\* one chapter id, the title's highest (last listed) chapter, whatever the
\* min/max range, the requested chapter numbers and the explicitly requested
\* chapter IDs are.
C23_LastChapterOnly ==
    (norm_pc = "returned" /\ norm_args.last_chapter) =>
        \A k \in DOMAIN normalized_mapping :
           normalized_mapping[k].ids = {LastListed(normalized_mapping[k].title_id)}

\* The ids the returned mapping holds under a title.
MappedIds(t) ==
    UNION {normalized_mapping[k].ids :
              k \in {j \in DOMAIN normalized_mapping :
                        normalized_mapping[j].title_id = t}}

\* The chapter's number is among the requested numbers, when there are any,
\* and in [min_chapter, max_chapter]; a name without a number counts as 0
\* for the range and matches no requested number.
PassesFilters(c) ==
    LET number == chapter_name_to_int(catalog.chapters[c].name)
        n == IF number.is_none THEN 0 ELSE number.value
    IN /\ norm_args.chapter_numbers # {} =>
             ~number.is_none /\ n \in norm_args.chapter_numbers
       /\ norm_args.min_chapter <= n
       /\ n <= norm_args.max_chapter

\* C36: when _normalize_ids returns, every explicitly requested chapter id
\* is mapped under the title of its viewer, whatever its number, the range
\* and the requested numbers are; a mapped id that was not requested
\* explicitly passed the filters, or is the last chapter listed when only the
\* last chapter is asked for.
C36_RequestedIdsAlwaysMapped ==
    norm_pc = "returned" =>
        /\ \A c \in norm_args.chapter_ids : c \in MappedIds(TitleOf(c))
        /\ \A t \in Titles :
              \A c \in MappedIds(t) \ norm_args.chapter_ids :
                 /\ TitleOf(c) = t
                 /\ IF norm_args.last_chapter THEN c = LastListed(t)
                    ELSE PassesFilters(c)

\* Chapter 1 was requested by id together with its title and the range lets
\* no chapter through: title 1 is mapped to chapter 1 alone.
C36_Witness ==
    /\ norm_pc = "returned"
    /\ norm_args.chapter_ids = {1}
    /\ norm_args.title_ids = {1}
    /\ ~norm_args.last_chapter
    /\ ~PassesFilters(1)
    /\ MappedIds(1) = {1}
    /\ Cardinality(ChaptersOf(1)) > 1

----------------------------------------------------------------------------
(* Properties of the HTTP transport (SpecRetry) *)

\* A request has been answered and the GET goes on with another request.
Retried == http.active /\ http'.active /\ http'.sent = http.sent + 1
\* A request has been answered and the answer is handed to _load_pages.
HandedBack == http.active /\ ~http'.active

RetriedOnlyOnListedStatus ==
    Retried => http'.status \in {429, 500, 502, 503, 504}
RetriedWhileRetriesLast ==
    (HandedBack /\ http'.status \in {429, 500, 502, 503, 504}) =>
        http'.sent = retries + 1
ExhaustedFailsUncached ==
    (HandedBack /\ http'.status \in {429, 500, 502, 503, 504}) =>
        /\ fetched'.raised = "HTTPError"
        /\ _cache_key(Identifier(http.id, "int")) \notin CacheKeys(viewer_cache')
AtMostRetriesTimes == http.sent <= retries + 1

\* C22: An HTTP GET that receives status 429, 500, 502, 503 or 504 is
\* retried, at most the configured number of times (default 3); a GET that
\* receives any other status is never retried. When the retries are
\* exhausted the fetch fails with a request error to its caller, and nothing
\* is cached for that identifier.
C22_RetryPolicy ==
    /\ []AtMostRetriesTimes
    /\ [][RetriedOnlyOnListedStatus]_vars
    /\ [][RetriedWhileRetriesLast]_vars
    /\ [][ExhaustedFailsUncached]_vars

\* The same without "a GET that receives any other status is never retried".
RetriesListedStatuses ==
    /\ []AtMostRetriesTimes
    /\ [][RetriedWhileRetriesLast]_vars
    /\ [][ExhaustedFailsUncached]_vars

\* The statuses that are retried though they are not listed.
RetriedUnlisted ==
    [][Retried => \/ http'.status \in {429, 500, 502, 503, 504}
                  \/ http'.status = 413 /\ http'.retry_after]_vars

-----------------------------------------------------------------------------
(* Properties of the orchestrator on the API loader (SpecRuntime) *)

\* The viewer has no page, or its final page has no last_page.
LacksLastPage(viewer) == viewer.pages = 0 \/ ~viewer.last_page

\* The chapter being processed has passed the last-page test: it is about to
\* be marked started, exported, marked completed or counted.
PastLastPageTest == pc[1] \in {"mark_started", "export", "mark_completed", "count"}

\* A viewer without last page sends the chapter to the failure handler with
\* the subscription error; nothing is exported by that step.
SubscriptionRequiredRaised ==
    (/\ pc[1] = "load_pages"
     /\ fetched' # fetched
     /\ fetched'.raised = "none"
     /\ LacksLastPage(fetched'.value))
    => /\ pc'[1] = "except"
       /\ error'[1] = "subscription"
       /\ exported' = exported
       /\ cur' = cur

\* The handler records the subscription error against the chapter at hand
\* and the loop goes on with the next chapter of the title, or the title ends
\* without an exception.
SubscriptionFailsThatChapterOnly ==
    (pc[1] = "except" /\ error[1] = "subscription" /\ exc'[1] = exc[1])
    => /\ summary'[1] = RecordFailure(summary[1], cur[1].chapter)
       /\ titles' = titles
       /\ IF cur[1].queue # <<>>
          THEN /\ pc'[1] = "load_pages"
               /\ cur'[1].chapter = Head(cur[1].queue)
          ELSE /\ pc'[1] = "title_finally"
               /\ exc'[1] = "none"

\* C24: a chapter whose fetched viewer lacks the last page raises the
\* subscription-required error before an exporter is constructed (no chapter
\* gets past the test with such a viewer); the error is recorded as a failure
\* of that chapter only and the remaining chapters and titles are processed.
C24_SubscriptionRequired ==
    /\ [](PastLastPageTest =>
            /\ fetched.cache = "viewer"
            /\ fetched.id = cur[1].chapter
            /\ fetched.raised = "none"
            /\ ~LacksLastPage(fetched.value))
    /\ [][SubscriptionRequiredRaised]_vars
    /\ [][SubscriptionFailsThatChapterOnly]_vars

\* A viewer with a page and no last_page has been fetched for a chapter that
\* has other chapters after it, and the subscription error is being handled.
C24_Witness ==
    /\ pc[1] = "except"
    /\ error[1] = "subscription"
    /\ fetched.cache = "viewer"
    /\ fetched.id = cur[1].chapter
    /\ fetched.value.pages > 0
    /\ ~fetched.value.last_page
    /\ cur[1].queue # <<>>

\* The cache holds an entry under the key of the integer id n.
Holds(cache, n) ==
    \E i \in DOMAIN cache : cache[i].key = _cache_key(Identifier(n, "int"))

\* The steps of _process_title, its finally block included.
TitleSteps ==
    {"open", "reset", "plan", "load_pages", "mark_started", "export",
     "mark_completed", "count", "except", "title_finally"}

\* After this step the manifest of the title has nothing pending and its
\* file holds its chapters, and the caches hold neither the title nor one of
\* its requested chapters.
FlushedAndCleared ==
    /\ UsesManifest(1) =>
          /\ ~man'[1].dirty
          /\ man[1].dirty =>
                disk'[cur[1].title] = WholeFile(SavedPayload(man[1].chapters))
    /\ ~Holds(title_cache', cur[1].title)
    /\ \A c \in RequestedChapters(cur[1].title) : ~Holds(viewer_cache', c)

C29_RunStartsAndEndsOnEmptyCaches ==
    /\ [][(pc[1] = "idle" /\ pc'[1] # "idle")
            => /\ pc'[1] = "normalize"
               /\ viewer_cache' = <<>>
               /\ title_cache' = <<>>]_vars
    /\ [][(pc[1] # "idle" /\ pc'[1] = "idle")
            => /\ pc[1] = "download_finally"
               /\ viewer_cache' = <<>>
               /\ title_cache' = <<>>]_vars
    /\ [](pc[1] = "normalize"
            => /\ viewer_cache = <<>>
               /\ \A i \in DOMAIN title_cache :
                     \E t \in RequestedTitles : Holds(<<title_cache[i]>>, t))

\* A run that had cached a title has been ended by an interrupt and has left
\* both caches empty.
C29_Witness ==
    /\ pc[1] = "idle"
    /\ outcome[1].kind = "KeyboardInterrupt"
    /\ fetched.cache = "title"
    /\ fetched.raised = "none"
    /\ viewer_cache = <<>>
    /\ title_cache = <<>>

-----------------------------------------------------------------------------
(* Properties of the chapter steps of the orchestrator (Spec) *)

\* The manifest entry of the chapter at hand, or the entry of a chapter the
\* manifest does not hold.
EntryAtHand(m, chapter_id) ==
    IF chapter_id \in DOMAIN m.chapters THEN m.chapters[chapter_id]
    ELSE NewEntry(chapter_id)

\* The viewer of the chapter at hand is fetched in this step.
ViewerFetched == pc[1] = "load_pages" /\ pc'[1] \in {"mark_started", "except"}

\* C25: with resume active the entry of a chapter is in_progress when its
\* viewer is fetched, and the entry of a chapter whose fetch failed carries,
\* once marked failed, the output format recorded by mark_started.
C25_InProgressBeforeFetch ==
    /\ [][(ViewerFetched /\ UsesManifest(1))
          => EntryAtHand(man[1], cur[1].chapter).status = "in_progress"]_vars
    /\ [][(/\ pc[1] = "except"
           /\ error[1] = "boom"
           /\ UsesManifest(1)
           /\ exc'[1] = exc[1])
          => LET entry == EntryAtHand(man'[1], cur[1].chapter)
             IN /\ entry.status = "failed"
                /\ entry.output_format = output_format]_vars

\* Some entry of the open manifest of run 1 is written as completed.
BecomesCompleted(c) ==
    /\ man[1].open
    /\ man'[1].open
    /\ c \in DOMAIN man'[1].chapters
    /\ man'[1].chapters[c].status = "completed"
    /\ EntryAtHand(man[1], c) # man'[1].chapters[c]

InterruptedInChapter ==
    /\ pc[1] \in {"load_pages", "mark_started", "export", "mark_completed"}
    /\ exc[1] = "none"
    /\ exc'[1] = "KeyboardInterrupt"

\* C27: an interrupt that arrives while a chapter is processed with resume
\* active marks the chapter failed, counts it in failed and
\* failed_chapter_ids, flushes the manifest, and leaves the title loop.
C27_InterruptMarksFailed ==
    [][(InterruptedInChapter /\ UsesManifest(1))
        => /\ EntryAtHand(man'[1], cur[1].chapter).status = "failed"
           /\ summary'[1] = RecordFailure(summary[1], cur[1].chapter)
           /\ ~man'[1].dirty
           /\ pc'[1] = "title_finally"]_vars

\* The chapters _process_title has left to download for the title at hand,
\* and the position enumerate(sorted(...), 1) gives the chapter at hand.
Pending == queued[1] \cap ChaptersOf(cur[1].title)
total_chapters == Cardinality(Pending)
chapter_index == total_chapters - Len(cur[1].queue)

InChapter ==
    pc[1] \in {"load_pages", "mark_started", "export", "mark_completed",
               "count", "except"}
InTitle == InChapter \/ pc[1] \in {"open", "reset", "plan", "title_finally"}

IsSuffix(q, whole) ==
    \E k \in 0..Len(whole) : q = SubSeq(whole, k + 1, Len(whole))

\* The chapter at hand is the chapter_index-th smallest pending chapter and
\* the chapters still to come are the larger ones, in ascending order.
AscendingChapters ==
    InChapter =>
        /\ cur[1].chapter \in Pending
        /\ chapter_index \in 1..total_chapters
        /\ chapter_index = Cardinality({d \in Pending : d <= cur[1].chapter})
        /\ SeqToSet(cur[1].queue) = {d \in Pending : d > cur[1].chapter}
        /\ \A i, j \in DOMAIN cur[1].queue :
              i < j => cur[1].queue[i] < cur[1].queue[j]

\* The loop moves from a chapter to the next larger pending one.
NextLargerChapter ==
    (InChapter /\ cur'[1].chapter \notin {0, cur[1].chapter})
    => /\ cur'[1].title = cur[1].title
       /\ cur'[1].chapter > cur[1].chapter
       /\ ~\E d \in Pending : cur[1].chapter < d /\ d < cur'[1].chapter

\* The titles still to come are a tail of the normalized mapping and the
\* title at hand is the first of them.
TitlesInMappingOrder ==
    /\ IsSuffix(titles[1], NormalizedTitles)
    /\ InTitle => titles[1] # <<>> /\ cur[1].title = Head(titles[1])

\* C30: the chapters of a title are processed one at a time in ascending
\* order of chapter id, at the positions 1..n of n, and the titles in the
\* order of the normalized mapping.
C30_AscendingOrder ==
    /\ [](AscendingChapters /\ TitlesInMappingOrder)
    /\ [][NextLargerChapter]_vars

\* The second of two pending chapters of title 1 is at hand, and title 2 is
\* still to come.
C30_Witness ==
    /\ pc[1] = "load_pages"
    /\ cur[1].title = 1
    /\ chapter_index = 2
    /\ Len(titles[1]) = 2

\* The steps of the chapter loop, and the chapters the loop of the title at
\* hand has not yet counted: the chapter at hand and those still queued.
ChapterSteps ==
    {"load_pages", "mark_started", "export", "mark_completed", "count", "except"}
Uncounted(r) ==
    IF pc[r] \in ChapterSteps
    THEN {cur[r].chapter} \cup SeqToSet(cur[r].queue)
    ELSE {}
\* The planner's chapters of the title at hand, those of them the manifest
\* filter let through, and those the loop has counted.
PlannedHere(r) == cur[r].planned
PendingHere(r) == PlannedHere(r) \cap queued[r]
CountedHere(r) == PendingHere(r) \ Uncounted(r)
FailedHere(r) ==
    SelectSeq(summary[r].failed_chapter_ids, LAMBDA c : c \in PlannedHere(r))
\* The chapters whose _process_chapter returned and whose downloaded += 1 has
\* been executed.
CountedDownloaded(r) ==
    finished[r] \ (IF pc[r] = "count" THEN {cur[r].chapter} ELSE {})
Uninterrupted(r) ==
    /\ exc[r] = "none"
    /\ pc[r] \in ChapterSteps \cup {"title_finally"}

\* C37: in a title whose processing is not interrupted, every chapter the
\* planner returned is accounted for once: the chapters the manifest filter
\* took out were added to skipped_manifest when the title was planned and are
\* neither attempted nor counted otherwise; every chapter the loop has
\* counted is either counted as downloaded or listed once in
\* failed_chapter_ids, never both; a step changes the counters by adding the
\* skipped chapters at planning, or one to downloaded, or one to failed
\* together with the chapter at hand; and downloaded plus failed is the number
\* of chapters attempted and counted.
C37_PerTitleAccounting ==
    /\ [](\A r \in Runs :
            Uninterrupted(r) =>
              /\ \A c \in PlannedHere(r) \ PendingHere(r) :
                    /\ c \notin attempted[r]
                    /\ c \notin CountedDownloaded(r)
                    /\ c \notin SeqToSet(summary[r].failed_chapter_ids)
              /\ \A c \in CountedHere(r) :
                    /\ (c \in CountedDownloaded(r))
                          # (c \in SeqToSet(FailedHere(r)))
                    /\ Cardinality({k \in DOMAIN FailedHere(r) :
                                       FailedHere(r)[k] = c}) <= 1
              /\ \A c \in Uncounted(r) :
                    /\ c \notin CountedDownloaded(r)
                    /\ c \notin SeqToSet(summary[r].failed_chapter_ids)
              /\ Cardinality(CountedDownloaded(r) \cap PlannedHere(r))
                    + Len(FailedHere(r)) = Cardinality(CountedHere(r))
              /\ CountedHere(r) = (attempted[r] \cap PlannedHere(r)) \ Uncounted(r)
              /\ summary[r].downloaded + summary[r].failed
                    = Cardinality(attempted[r] \ Uncounted(r))
              /\ summary[r].downloaded = Cardinality(CountedDownloaded(r)))
    /\ [][\A r \in Runs :
            (summary'[r] # summary[r] /\ pc[r] # "idle") =>
              \/ /\ pc[r] = "plan"
                 /\ summary'[r] = [summary[r] EXCEPT !.skipped_manifest =
                        @ + Cardinality(PlannedHere(r)' \ PendingHere(r)')]
              \/ /\ pc[r] = "count"
                 /\ summary'[r] = [summary[r] EXCEPT !.downloaded = @ + 1]
                 /\ cur[r].chapter \notin Uncounted(r)'
              \/ /\ pc[r] = "except"
                 /\ summary'[r] = [summary[r] EXCEPT
                        !.failed = @ + 1,
                        !.failed_chapter_ids = Append(@, cur[r].chapter)]
                 /\ cur[r].chapter \notin Uncounted(r)'
         ]_vars

\* A resumed run is at the end of its second title, whose chapter was
\* downloaded, after a title of which the manifest had one chapter as
\* completed and the other chapter failed.
C37_Witness ==
    /\ pc[1] = "title_finally"
    /\ exc[1] = "none"
    /\ summary[1].skipped_manifest = 1
    /\ summary[1].failed = 1
    /\ summary[1].downloaded = 1
    /\ PlannedHere(1) = ChaptersOf(2)
    /\ CountedHere(1) = CountedDownloaded(1)

----------------------------------------------------------------------------
(* Properties of the calls of export_pages (SpecPages) *)

\* The calls made for the page at position k, in the order they were made.
CallsFor(k) == SelectSeq(page_calls, LAMBDA e : e.page = k)

\* The calls of one kind, in the order they were made.
CallsNamed(call) == SelectSeq(page_calls, LAMBDA e : e.call = call)

\* C31: for every page taken, skip_image(index) is the first call; when it
\* returned true nothing else is called for the page, otherwise one fetch of
\* the page and then one add_image with the same index follow; the calls of
\* a page come after those of the pages before it, and add_image receives
\* the pages in their original order.
C31_SkipBeforeFetch ==
    /\ \A k \in 1..Len(pages) :
          LET made == CallsFor(k)
          IN IF k > page_pos THEN made = <<>>
             ELSE /\ made # <<>>
                  /\ made[1].call = "skip_image"
                  /\ made[1].index = output_indices[k]
                  /\ IF made[1].returned
                     THEN Len(made) = 1
                     ELSE /\ Len(made) = 3
                          /\ made[2].call = "fetch_page_image"
                          /\ made[3].call = "add_image"
                          /\ made[3].index = made[1].index
    /\ \A i, j \in DOMAIN page_calls :
          i < j => page_calls[i].page <= page_calls[j].page
    /\ LET adds == CallsNamed("add_image")
       IN /\ Len(adds) = Len(added)
          /\ \A i \in DOMAIN adds : adds[i].index = added[i]

\* Of three pages the first was skipped without a fetch and the other two
\* were fetched and added.
C31_Witness ==
    /\ exhausted
    /\ Len(pages) = 3
    /\ Len(CallsFor(1)) = 1
    /\ Len(CallsNamed("fetch_page_image")) = 2
    /\ Len(added) = 2

-----------------------------------------------------------------------------
(* Properties of the planner's filter (SpecFilter) *)

\* The position of an id in a list of distinct ids.
PositionIn(q, x) == CHOOSE k \in DOMAIN q : q[k] = x

\* The ids that are to be returned: in the metadata, listed by the title
\* dump, with no file of the expected stem, and requested.
WantedIds ==
    {c \in SeqToSet(plan_args.chapter_data) :
        /\ c \in plan_args.title_dump
        /\ StemUnderTitle1(c) \notin plan_args.existing_files
        /\ c \in plan_args.requested_chapter_ids}

\* C32: filter_chapters_to_download returns, in the order of the chapter
\* metadata and each once, exactly the ids that the title dump lists, whose
\* expected stem is not among the existing stems and that are requested; an
\* id the dump does not list is left out and the call returns; no id outside
\* the requested ones is returned.
C32_FilterChapters ==
    plan_pc = "returned" =>
        /\ SeqToSet(planned_ids) = WantedIds
        /\ Len(planned_ids) = Cardinality(WantedIds)
        /\ \A i, j \in DOMAIN planned_ids :
              i < j => PositionIn(plan_args.chapter_data, planned_ids[i])
                         < PositionIn(plan_args.chapter_data, planned_ids[j])
        /\ SeqToSet(planned_ids) \subseteq plan_args.requested_chapter_ids
        /\ SeqToSet(planned_ids) \cap (Chapters \ plan_args.title_dump) = {}

\* The metadata lists 2, 1, 3; the dump does not list 3; everything is
\* requested and nothing is on disk: 2 and 1 are returned in that order.
C32_Witness ==
    /\ plan_pc = "returned"
    /\ plan_args.chapter_data = <<2, 1, 3>>
    /\ plan_args.title_dump = {1, 2}
    /\ plan_args.requested_chapter_ids = Chapters
    /\ plan_args.existing_files = {OtherStem}
    /\ planned_ids = <<2, 1>>

====
